---- MODULE Spec2Model ----
(***************************************************************************)
(* The asynchronous job pipeline of the video clipping agent: the          *)
(* ingestion orchestrator (app/api/ingest/route.ts), the clip pipeline     *)
(* orchestrator (app/api/process/route.ts) and the two job registries      *)
(* they write.  Every action is one run-to-next-await segment of a handler *)
(* or of a background task: JavaScript runs such a segment without         *)
(* interleaving, and a status poll can observe only the states between     *)
(* segments.  External collaborators (ffmpeg, ytdl, the transcription and  *)
(* ranking services) either return or throw; which one, and what they      *)
(* return, is chosen nondeterministically.                                 *)
(***************************************************************************)
EXTENDS Integers, Sequences, FiniteSets, TLC

\* Bounds of the model.
MaxMoments == 3   \* moments the detector returns for one job
MaxSegments == 3  \* transcript segments handed to the detector
MaxCaptionSegments == 2  \* transcript segments handed to generateSRT
MaxJobs == 3      \* jobs of both kinds together, where jobs run side by side

VARIABLES
    jobs,        \* the ingestion job registry: job id -> entry
    clipJobs,    \* the clip job registry: clip job id -> entry
    files,       \* the file system: path -> content
    ingestTask,  \* job id -> locals and await point of its orchestrator run
    clipTask,    \* clip job id -> locals and await point of processClips
    trace,       \* job id -> registry writes and collaborator calls, in order
    clipTrace,   \* clip job id -> the same for processClips
    lib,         \* a call of a library function on its own: arguments, await point, results
    reply        \* the response sent by the step just taken, if a request handler took it

vars == <<jobs, clipJobs, files, ingestTask, clipTask, trace, clipTrace, lib, reply>>

----------------------------------------------------------------------------
\* JavaScript helpers.

\* Map.prototype.set: whole-entry replace under key k.
MapSet(m, k, v) == [x \in DOMAIN m \cup {k} |-> IF x = k THEN v ELSE m[x]]

\* Object spread { ...old, ...upd }.
Spread(old, upd) ==
    [f \in DOMAIN old \cup DOMAIN upd |-> IF f \in DOMAIN upd THEN upd[f] ELSE old[f]]

\* fs.unlinkSync / fs.writeFileSync / fs.renameSync / fs.copyFileSync.
Unlink(fs, p) == [q \in DOMAIN fs \ {p} |-> fs[q]]
WriteFile(fs, p, content) == MapSet(fs, p, content)
Rename(fs, from, to) == Unlink(MapSet(fs, to, fs[from]), from)
CopyFile(fs, from, to) == MapSet(fs, to, fs[from])

Range(s) == {s[k] : k \in DOMAIN s}

\* One entry of a trace: a registry write ("set", step label, progress), a
\* collaborator call, its return or its throw.
Ev(ev, fn, val) == [ev |-> ev, fn |-> fn, val |-> val]

\* What the collaborators can return.
Transcripts == {1, 2}    \* identifiers of segment lists (0 is the empty list)
Durations == {45, 90}    \* ffprobe results, in seconds
Moment(k) == [id |-> k, start |-> 20 * k, end |-> 20 * k + 15]
DetectResults == {[k \in 1..n |-> Moment(k)] : n \in 0..MaxMoments}

\* Path templates.
UploadPath(j, ext) == <<"uploads", j, 0, ext>>
AudioPath(j) == <<"temp", j, 0, ".wav">>

----------------------------------------------------------------------------
\* Ingestion: POST /api/ingest and its two background tasks.

\* Mutant of WriteProgress: the snapshot is written to every entry of the
\* registry that is still processing.
WriteProgressToAll(store, id, progress, step) ==
    [k \in DOMAIN store |->
        IF store[k].status = "processing"
        THEN Spread(store[k], [progress |-> progress, currentStep |-> step])
        ELSE store[k]]

\* jobs.set(jobId, { ...jobs.get(jobId), progress, currentStep }).
WriteProgress(store, id, progress, step) ==
    MapSet(store, id, Spread(store[id], [progress |-> progress, currentStep |-> step]))

\* Mutant of IngestCatch: the error is logged and the entry left as it is.
IngestCatchSwallows(store, id, message) == store

\* The .catch handler of the fire-and-forget call: whole-entry replace.
IngestCatch(store, id, message) ==
    MapSet(store, id, [id |-> id, status |-> "failed", error |-> message])

\* Mutant of IngestComplete: status and result are merged into the last
\* snapshot, whose progress stays.
IngestCompleteKeepsProgress(store, id, videoPath, segments, moments, duration, source) ==
    MapSet(store, id,
        Spread(store[id],
            [status |-> "completed",
             result |-> [videoPath |-> videoPath, segments |-> segments, moments |-> moments,
                         duration |-> duration, source |-> source]]))

\* The terminal write of both orchestrators.
IngestComplete(store, id, videoPath, segments, moments, duration, source) ==
    MapSet(store, id,
        [id |-> id, status |-> "completed", progress |-> 100, currentStep |-> "Complete",
         result |-> [videoPath |-> videoPath, segments |-> segments, moments |-> moments,
                     duration |-> duration, source |-> source]])

\* uuidv4(): an identifier no entry of either registry has.
NewJobId == Cardinality(DOMAIN jobs) + Cardinality(DOMAIN clipJobs) + 1

\* A step of a background task answers no request.
NoReply == [route |-> "none"]

\* What a step of an ingestion task leaves alone.
IngestFrame == reply' = NoReply /\ UNCHANGED <<clipJobs, clipTask, clipTrace, lib>>

\* NextResponse.json({ jobId, message: 'Processing started' }).
IngestAccepted(j) == [route |-> "ingest", status |-> 200, jobId |-> j]

\* NextResponse.json({ error }, { status }).
ErrorResponse(route, status, error) == [route |-> route, status |-> status, error |-> error]

\* Mutant of IngestPOSTYouTube: the identifier is returned and the entry left
\* for the background task to create.
IngestPOSTYouTubeReturnsFirst ==
    /\ reply' = IngestAccepted(NewJobId)
    /\ UNCHANGED <<jobs, files, ingestTask, trace, clipJobs, clipTask, clipTrace, lib>>

\* POST with a JSON body carrying a recognised URL: create the entry, then run
\* processYouTubeVideo up to its first await.
IngestPOSTYouTube ==
    /\ LET j == NewJobId
           created == MapSet(jobs, j, [id |-> j, status |-> "processing", progress |-> 0,
                                       currentStep |-> "Downloading video"])
       IN /\ jobs' = WriteProgress(created, j, 10, "Fetching transcript")
          /\ ingestTask' = MapSet(ingestTask, j,
                [pc |-> "getYouTubeTranscript", source |-> "youtube",
                 videoPath |-> UploadPath(j, ".mp4"), segments |-> 0,
                 needsDownload |-> FALSE, moments |-> <<>>])
          /\ trace' = MapSet(trace, j,
                <<Ev("set", "Downloading video", 0), Ev("set", "Fetching transcript", 10),
                  Ev("call", "getYouTubeTranscript", 0)>>)
          /\ reply' = IngestAccepted(j)
    /\ UNCHANGED <<files, clipJobs, clipTask, clipTrace, lib>>

\* POST with a multipart body: save the file, create the entry, then run
\* processUploadedFile up to its first await.
IngestPOSTUpload(isAudio) ==
    /\ LET j == NewJobId
           source == IF isAudio THEN "audio" ELSE "upload"
           videoPath == UploadPath(j, IF isAudio THEN ".mp3" ELSE ".mov")
           created == MapSet(jobs, j, [id |-> j, status |-> "processing", progress |-> 0,
                                       currentStep |-> "Processing file"])
       IN /\ files' = WriteFile(files, videoPath, [of |-> j, fx |-> <<"upload">>])
          /\ jobs' = WriteProgress(created, j, 20, "Extracting audio")
          /\ ingestTask' = MapSet(ingestTask, j,
                [pc |-> IF isAudio THEN "execAsync" ELSE "extractAudioFromVideo",
                 source |-> source, videoPath |-> videoPath, segments |-> 0,
                 needsDownload |-> FALSE, moments |-> <<>>])
          /\ trace' = MapSet(trace, j,
                <<Ev("set", "Processing file", 0), Ev("set", "Extracting audio", 20),
                  Ev("call", IF isAudio THEN "execAsync" ELSE "extractAudioFromVideo", 0)>>)
          /\ reply' = IngestAccepted(j)
    /\ UNCHANGED <<clipJobs, clipTask, clipTrace, lib>>

\* The task of job j is suspended at the await of collaborator fn.
Awaiting(j, fn) == j \in DOMAIN ingestTask /\ ingestTask[j].pc = fn

IsYouTube(j) == ingestTask[j].source = "youtube"

\* Mutant of YTTranscriptReturns: with a transcript at hand the download is
\* skipped and detection starts at once.
YTTranscriptReturnsSkipsDownload(j, s) ==
    /\ j \in DOMAIN ingestTask /\ ingestTask[j].pc = "getYouTubeTranscript"
    /\ jobs' = WriteProgress(jobs, j, 60, "Detecting viral moments")
    /\ ingestTask' = [ingestTask EXCEPT ![j].segments = s, ![j].pc = "detectViralMoments"]
    /\ trace' = [trace EXCEPT ![j] = @ \o
            <<Ev("ret", "getYouTubeTranscript", s), Ev("set", "Detecting viral moments", 60),
              Ev("call", "detectViralMoments", s)>>]
    /\ UNCHANGED files
    /\ IngestFrame

\* getYouTubeTranscript returned: the source is still downloaded.
YTTranscriptReturns(j, s) ==
    /\ Awaiting(j, "getYouTubeTranscript")
    /\ jobs' = WriteProgress(jobs, j, 30, "Downloading video")
    /\ ingestTask' = [ingestTask EXCEPT ![j].segments = s,
                                        ![j].pc = "downloadYouTubeVideo"]
    /\ trace' = [trace EXCEPT ![j] = @ \o
            <<Ev("ret", "getYouTubeTranscript", s), Ev("set", "Downloading video", 30),
              Ev("call", "downloadYouTubeVideo", 0)>>]
    /\ UNCHANGED files
    /\ IngestFrame

\* Mutant of YTTranscriptThrows: no inner try/catch, the throw fails the job.
YTTranscriptThrowsAborts(j) ==
    /\ j \in DOMAIN ingestTask /\ ingestTask[j].pc = "getYouTubeTranscript"
    /\ jobs' = IngestCatch(jobs, j, "getYouTubeTranscript")
    /\ ingestTask' = [ingestTask EXCEPT ![j].pc = "done"]
    /\ trace' = [trace EXCEPT ![j] = @ \o
            <<Ev("throw", "getYouTubeTranscript", 0), Ev("set", "failed", 0)>>]
    /\ UNCHANGED files
    /\ IngestFrame

\* getYouTubeTranscript threw: the inner catch sets needsDownload.
YTTranscriptThrows(j) ==
    /\ Awaiting(j, "getYouTubeTranscript")
    /\ jobs' = WriteProgress(jobs, j, 20, "Downloading video")
    /\ ingestTask' = [ingestTask EXCEPT ![j].needsDownload = TRUE,
                                        ![j].pc = "downloadYouTubeVideo"]
    /\ trace' = [trace EXCEPT ![j] = @ \o
            <<Ev("throw", "getYouTubeTranscript", 0), Ev("set", "Downloading video", 20),
              Ev("call", "downloadYouTubeVideo", 0)>>]
    /\ UNCHANGED files
    /\ IngestFrame

\* downloadYouTubeVideo returned, on either branch.
YTDownloadReturns(j) ==
    /\ Awaiting(j, "downloadYouTubeVideo")
    /\ files' = WriteFile(files, ingestTask[j].videoPath, [of |-> j, fx |-> <<"download">>])
    /\ IF ingestTask[j].needsDownload
       THEN /\ jobs' = WriteProgress(jobs, j, 40, "Transcribing audio")
            /\ ingestTask' = [ingestTask EXCEPT ![j].pc = "extractAudioFromVideo"]
            /\ trace' = [trace EXCEPT ![j] = @ \o
                    <<Ev("ret", "downloadYouTubeVideo", 0),
                      Ev("set", "Transcribing audio", 40),
                      Ev("call", "extractAudioFromVideo", 0)>>]
       ELSE /\ jobs' = WriteProgress(jobs, j, 60, "Detecting viral moments")
            /\ ingestTask' = [ingestTask EXCEPT ![j].pc = "detectViralMoments"]
            /\ trace' = [trace EXCEPT ![j] = @ \o
                    <<Ev("ret", "downloadYouTubeVideo", 0),
                      Ev("set", "Detecting viral moments", 60),
                      Ev("call", "detectViralMoments", ingestTask[j].segments)>>]
    /\ IngestFrame

\* extractAudioFromVideo returned in processYouTubeVideo.
YTExtractReturns(j) ==
    /\ Awaiting(j, "extractAudioFromVideo") /\ IsYouTube(j)
    /\ files' = WriteFile(files, AudioPath(j), [of |-> j, fx |-> <<"audio">>])
    /\ ingestTask' = [ingestTask EXCEPT ![j].pc = "transcribeVideo"]
    /\ trace' = [trace EXCEPT ![j] = @ \o
            <<Ev("ret", "extractAudioFromVideo", 0), Ev("call", "transcribeVideo", 0)>>]
    /\ UNCHANGED jobs
    /\ IngestFrame

\* transcribeVideo returned in processYouTubeVideo.
YTTranscribeReturns(j, s) ==
    /\ Awaiting(j, "transcribeVideo") /\ IsYouTube(j)
    /\ files' = Unlink(files, AudioPath(j))
    /\ jobs' = WriteProgress(jobs, j, 60, "Detecting viral moments")
    /\ ingestTask' = [ingestTask EXCEPT ![j].segments = s,
                                        ![j].pc = "detectViralMoments"]
    /\ trace' = [trace EXCEPT ![j] = @ \o
            <<Ev("ret", "transcribeVideo", s), Ev("set", "Detecting viral moments", 60),
              Ev("call", "detectViralMoments", s)>>]
    /\ IngestFrame

\* detectViralMoments returned in processYouTubeVideo.
YTDetectReturns(j, m) ==
    /\ Awaiting(j, "detectViralMoments") /\ IsYouTube(j)
    /\ ingestTask' = [ingestTask EXCEPT ![j].moments = m, ![j].pc = "getVideoDuration"]
    /\ trace' = [trace EXCEPT ![j] = @ \o
            <<Ev("ret", "detectViralMoments", Len(m)), Ev("call", "getVideoDuration", 0)>>]
    /\ UNCHANGED <<jobs, files>>
    /\ IngestFrame

\* getVideoDuration returned: the terminal write (both orchestrators).
DurationReturns(j, d) ==
    /\ Awaiting(j, "getVideoDuration")
    /\ jobs' = IngestComplete(jobs, j, ingestTask[j].videoPath, ingestTask[j].segments,
                              ingestTask[j].moments, d, ingestTask[j].source)
    /\ ingestTask' = [ingestTask EXCEPT ![j].pc = "done"]
    /\ trace' = [trace EXCEPT ![j] = @ \o
            <<Ev("ret", "getVideoDuration", d), Ev("set", "Complete", 100)>>]
    /\ UNCHANGED files
    /\ IngestFrame

\* The audio conversion of processUploadedFile returned (ffmpeg resample for
\* an audio source, extractAudioFromVideo otherwise).
UPExtractReturns(j) ==
    /\ j \in DOMAIN ingestTask /\ ~IsYouTube(j)
    /\ ingestTask[j].pc \in {"execAsync", "extractAudioFromVideo"}
    /\ files' = WriteFile(files, AudioPath(j), [of |-> j, fx |-> <<"audio">>])
    /\ jobs' = WriteProgress(jobs, j, 40, "Transcribing audio")
    /\ ingestTask' = [ingestTask EXCEPT ![j].pc = "transcribeVideo"]
    /\ trace' = [trace EXCEPT ![j] = @ \o
            <<Ev("ret", ingestTask[j].pc, 0), Ev("set", "Transcribing audio", 40),
              Ev("call", "transcribeVideo", 0)>>]
    /\ IngestFrame

\* transcribeVideo returned in processUploadedFile.
UPTranscribeReturns(j, s) ==
    /\ Awaiting(j, "transcribeVideo") /\ ~IsYouTube(j)
    /\ files' = Unlink(files, AudioPath(j))
    /\ jobs' = WriteProgress(jobs, j, 70, "Detecting viral moments")
    /\ ingestTask' = [ingestTask EXCEPT ![j].segments = s,
                                        ![j].pc = "detectViralMoments"]
    /\ trace' = [trace EXCEPT ![j] = @ \o
            <<Ev("ret", "transcribeVideo", s), Ev("set", "Detecting viral moments", 70),
              Ev("call", "detectViralMoments", s)>>]
    /\ IngestFrame

\* Mutant of UPDetectReturns: the duration is probed whatever the source.
UPDetectReturnsAlwaysProbes(j, m) ==
    /\ j \in DOMAIN ingestTask /\ ingestTask[j].pc = "detectViralMoments"
    /\ ingestTask[j].source # "youtube"
    /\ ingestTask' = [ingestTask EXCEPT ![j].moments = m, ![j].pc = "getVideoDuration"]
    /\ trace' = [trace EXCEPT ![j] = @ \o
            <<Ev("ret", "detectViralMoments", Len(m)), Ev("call", "getVideoDuration", 0)>>]
    /\ UNCHANGED <<jobs, files>>
    /\ IngestFrame

\* detectViralMoments returned in processUploadedFile: the duration is probed
\* for a video upload only.
UPDetectReturns(j, m) ==
    /\ Awaiting(j, "detectViralMoments") /\ ~IsYouTube(j)
    /\ IF ingestTask[j].source = "upload"
       THEN /\ ingestTask' = [ingestTask EXCEPT ![j].moments = m,
                                                ![j].pc = "getVideoDuration"]
            /\ trace' = [trace EXCEPT ![j] = @ \o
                    <<Ev("ret", "detectViralMoments", Len(m)),
                      Ev("call", "getVideoDuration", 0)>>]
            /\ UNCHANGED jobs
       ELSE /\ jobs' = IngestComplete(jobs, j, ingestTask[j].videoPath,
                                      ingestTask[j].segments, m, 0, ingestTask[j].source)
            /\ ingestTask' = [ingestTask EXCEPT ![j].moments = m, ![j].pc = "done"]
            /\ trace' = [trace EXCEPT ![j] = @ \o
                    <<Ev("ret", "detectViralMoments", Len(m)), Ev("set", "Complete", 100)>>]
    /\ UNCHANGED files
    /\ IngestFrame

\* Any awaited collaborator other than the fast transcript throws: the
\* orchestrator rethrows and the .catch handler of POST runs.
IngestStageThrows(j) ==
    /\ j \in DOMAIN ingestTask
    /\ ingestTask[j].pc \notin {"getYouTubeTranscript", "done"}
    /\ jobs' = IngestCatch(jobs, j, ingestTask[j].pc)
    /\ ingestTask' = [ingestTask EXCEPT ![j].pc = "done"]
    /\ trace' = [trace EXCEPT ![j] = @ \o
            <<Ev("throw", ingestTask[j].pc, 0), Ev("set", "failed", 0)>>]
    /\ UNCHANGED files
    /\ IngestFrame

----------------------------------------------------------------------------
\* Clip rendering: POST /api/process and processClips.

\* Path templates of the clip with 0-based loop index i - 1 of clip job c; the
\* pair <<c, i>> stands for the clip's generated identifier.
ClipId(c, i) == <<c, i>>
ErrorClipId(c, i) == <<c, 0 - i>>
ClipPath(c, i, suffix) == <<"clips", c, i, suffix>>
BaseClipPath(c, i) == ClipPath(c, i, "_base.mp4")
SrtPath(c, i) == ClipPath(c, i, "_base.srt")
CaptionedPath(c, i) == ClipPath(c, i, "_captioned.mp4")
ZoomPath(c, i) == ClipPath(c, i, "_final.mp4")
FinalClipPath(c, i) == ClipPath(c, i, ".mp4")
ThumbnailPath(c, i) == ClipPath(c, i, "_thumb.jpg")

\* The content of a media file: the moment it shows and the transforms applied.
Content(moment, fx) == [of |-> moment.id, fx |-> fx]
Apply(content, transform) == [content EXCEPT !.fx = Append(@, transform)]

\* config.addCaptions !== false, config.addZoomPan !== false.
Configs == [addCaptions : BOOLEAN, addZoomPan : BOOLEAN]

\* The momentIds of a request: any list over the known ids and an unknown one.
MomentIdLists ==
    UNION {[1..n -> 1..(MaxMoments + 1)] : n \in 1..MaxMoments}

\* Mutant of SelectedMoments: the moments are looked up id by id, in the order
\* of the request.
SelectedInRequestOrder(moments, momentIds) ==
    LET known == SelectSeq(momentIds, LAMBDA id : \E m \in Range(moments) : m.id = id)
    IN [k \in DOMAIN known |-> CHOOSE m \in Range(moments) : m.id = known[k]]

\* moments.filter(m => momentIds.includes(m.id)).
SelectedMoments(moments, momentIds) ==
    SelectSeq(moments, LAMBDA m : m.id \in Range(momentIds))

\* uuidv4(): an identifier no entry of either registry has.
NewClipJobId == Cardinality(DOMAIN jobs) + Cardinality(DOMAIN clipJobs) + 1

\* What a step of processClips leaves alone.
ClipFrame == reply' = NoReply /\ UNCHANGED <<jobs, ingestTask, trace, lib>>

\* NextResponse.json({ clipJobId, message: 'Clip processing started' }).
ProcessAccepted(c) == [route |-> "process", status |-> 200, clipJobId |-> c]

\* The .catch handler of the fire-and-forget processClips call.
ClipJobCatch(store, id, message) ==
    MapSet(store, id, [id |-> id, status |-> "failed", error |-> message])

\* Mutant of ClipComplete: the loop ends without the terminal write.
ClipCompleteSkipped(store, id, total, clips) == store

\* The terminal write after the loop.
ClipComplete(store, id, total, clips) ==
    MapSet(store, id,
        [id |-> id, status |-> "completed", progress |-> 100, currentStep |-> "Complete",
         processedClips |-> total, totalClips |-> total, result |-> clips])

\* Mutant of ClipProgress: the percentage is rounded up.
ClipProgressCeiling(store, id, i, total) ==
    MapSet(store, id,
        Spread(store[id], [progress |-> ((i - 1) * 100 + total - 1) \div total,
                           currentStep |-> <<"Processing clip", i, total>>,
                           processedClips |-> i - 1]))

\* The snapshot written at the top of the loop body for 1-based index i.
ClipProgress(store, id, i, total) ==
    MapSet(store, id,
        Spread(store[id], [progress |-> ((i - 1) * 100) \div total,
                           currentStep |-> <<"Processing clip", i, total>>,
                           processedClips |-> i - 1]))

\* The loop head: the next iteration up to its await of createClip, or the
\* terminal write once every moment has been handled.
Continue(c, store, task, tr) ==
    IF task.i <= Len(task.moments)
    THEN /\ clipJobs' = ClipProgress(store, c, task.i, Len(task.moments))
         /\ clipTask' = MapSet(clipTask, c,
                [task EXCEPT !.pc = "createClip", !.processedPath = <<>>])
         /\ clipTrace' = MapSet(clipTrace, c, tr \o
                <<Ev("set", "Processing clip", task.i - 1), Ev("call", "createClip", task.i)>>)
    ELSE /\ clipJobs' = ClipComplete(store, c, Len(task.moments), task.clips)
         /\ clipTask' = MapSet(clipTask, c, [task EXCEPT !.pc = "done"])
         /\ clipTrace' = MapSet(clipTrace, c, tr \o <<Ev("set", "Complete", 100)>>)

\* A throw escaping processClips: the .catch handler of POST fails the job.
ClipRethrow(c, task, message, tr) ==
    /\ clipJobs' = ClipJobCatch(clipJobs, c, message)
    /\ clipTask' = MapSet(clipTask, c, [task EXCEPT !.pc = "done"])
    /\ clipTrace' = MapSet(clipTrace, c, tr \o <<Ev("set", "failed", 0)>>)

\* Mutants of PerClipCatch: the failed moment is skipped without an entry; the
\* job is flagged failed and the loop carries on.  (ClipRethrow is the third.)
PerClipCatchDrops(c, task, message, tr) ==
    Continue(c, clipJobs, [task EXCEPT !.i = @ + 1], tr)

PerClipCatchFlagsJob(c, task, message, tr) ==
    Continue(c, ClipJobCatch(clipJobs, c, message),
        [task EXCEPT !.clips = Append(@, [id |-> ErrorClipId(c, task.i), error |-> message,
                                         moment |-> task.moments[task.i], ready |-> FALSE]),
                     !.i = @ + 1],
        tr)

\* The catch block of the loop body: a non-ready entry, then the next moment.
PerClipCatch(c, task, message, tr) ==
    Continue(c, clipJobs,
        [task EXCEPT !.clips = Append(@, [id |-> ErrorClipId(c, task.i), error |-> message,
                                         moment |-> task.moments[task.i], ready |-> FALSE]),
                     !.i = @ + 1],
        tr)

\* Mutant of PushReady: the ready entry is put in front of the earlier ones.
PushReadyInFront(c, task, tr) ==
    Continue(c, clipJobs,
        [task EXCEPT !.clips = <<[id |-> ClipId(c, task.i), videoPath |-> FinalClipPath(c, task.i),
                                 thumbnailPath |-> ThumbnailPath(c, task.i),
                                 duration |-> task.moments[task.i].end - task.moments[task.i].start,
                                 moment |-> task.moments[task.i], ready |-> TRUE]>> \o @,
                     !.i = @ + 1],
        tr)

\* The end of the try block: a ready entry, then the next moment.
PushReady(c, task, tr) ==
    Continue(c, clipJobs,
        [task EXCEPT !.clips = Append(@,
                        [id |-> ClipId(c, task.i), videoPath |-> FinalClipPath(c, task.i),
                         thumbnailPath |-> ThumbnailPath(c, task.i),
                         duration |-> task.moments[task.i].end - task.moments[task.i].start,
                         moment |-> task.moments[task.i], ready |-> TRUE]),
                     !.i = @ + 1],
        tr)

\* Mutant of Finalise: the processed file keeps its intermediate name.
FinaliseWithoutRename(c, task, fs, finalPath, tr) ==
    /\ files' = fs
    /\ clipTask' = [clipTask EXCEPT ![c] = [task EXCEPT !.pc = "generateThumbnail"]]
    /\ clipTrace' = [clipTrace EXCEPT ![c] = tr \o <<Ev("call", "generateThumbnail", task.i)>>]
    /\ UNCHANGED clipJobs

\* "Rename to final name", then the call of generateThumbnail.
Finalise(c, task, fs, finalPath, tr) ==
    /\ files' = IF finalPath # FinalClipPath(c, task.i)
                THEN Rename(fs, finalPath, FinalClipPath(c, task.i))
                ELSE fs
    /\ clipTask' = [clipTask EXCEPT ![c] = [task EXCEPT !.pc = "generateThumbnail"]]
    /\ clipTrace' = [clipTrace EXCEPT ![c] = tr \o <<Ev("call", "generateThumbnail", task.i)>>]
    /\ UNCHANGED clipJobs

\* Mutant of ZoomStage: the transform is applied whatever the toggle says.
ZoomStageAlways(c, task, fs, tr) ==
    /\ files' = fs
    /\ clipTask' = [clipTask EXCEPT ![c] = [task EXCEPT !.pc = "addZoomPanEffect"]]
    /\ clipTrace' = [clipTrace EXCEPT ![c] =
           tr \o <<Ev("call", "addZoomPanEffect", task.i)>>]
    /\ UNCHANGED clipJobs

\* Step 3: the call of addZoomPanEffect on processedPath, when enabled.
ZoomStage(c, task, fs, tr) ==
    IF task.config.addZoomPan
    THEN /\ files' = fs
         /\ clipTask' = [clipTask EXCEPT ![c] = [task EXCEPT !.pc = "addZoomPanEffect"]]
         /\ clipTrace' = [clipTrace EXCEPT ![c] =
                tr \o <<Ev("call", "addZoomPanEffect", task.i)>>]
         /\ UNCHANGED clipJobs
    ELSE Finalise(c, task, fs, task.processedPath, tr)

\* After addZoomPanEffect resolved: drop the captioned input, keep the output.
AfterZoom(c, task, fs, tr) ==
    Finalise(c, task,
        IF task.processedPath # BaseClipPath(c, task.i)
        THEN Unlink(fs, task.processedPath)
        ELSE fs,
        ZoomPath(c, task.i), tr)

\* Mutant of ZoomPanFallback: the output the failed transform left is kept.
ZoomPanFallbackKeepsPartial(fs, videoPath, outputPath) ==
    WriteFile(fs, outputPath, Apply(fs[videoPath], "partial"))

\* The catch block of addZoomPanEffect: fs.copyFileSync(videoPath, outputPath).
ZoomPanFallback(fs, videoPath, outputPath) == CopyFile(fs, videoPath, outputPath)

ClipAwaiting(c, fn) == c \in DOMAIN clipTask /\ clipTask[c].pc = fn

\* POST with a completed ingestion job and a selection matching a moment:
\* create the entry, then run processClips up to its first await.
ProcessPOST(jobId, momentIds, config) ==
    /\ jobId \in DOMAIN jobs
    /\ jobs[jobId].status = "completed"
    /\ LET c == NewClipJobId
           selected == SelectedMoments(jobs[jobId].result.moments, momentIds)
           created == MapSet(clipJobs, c,
                         [id |-> c, status |-> "processing", progress |-> 0,
                          currentStep |-> "Preparing clips", totalClips |-> Len(selected),
                          processedClips |-> 0])
       IN /\ Len(selected) # 0
          /\ Continue(c, created,
                [pc |-> "createClip", i |-> 1, moments |-> selected, config |-> config,
                 clips |-> <<>>, processedPath |-> <<>>,
                 videoPath |-> jobs[jobId].result.videoPath,
                 segments |-> jobs[jobId].result.segments],
                <<Ev("set", "Preparing clips", 0)>>)
          /\ reply' = ProcessAccepted(c)
    /\ UNCHANGED <<files, jobs, ingestTask, trace, lib>>

\* createClip returned: the base clip exists; run up to the next await.
CreateClipReturns(c) ==
    /\ ClipAwaiting(c, "createClip")
    /\ LET task == [clipTask[c] EXCEPT !.processedPath = BaseClipPath(c, clipTask[c].i)]
           i == task.i
           fs == WriteFile(files, BaseClipPath(c, i), Content(task.moments[i], <<"crop">>))
           tr == clipTrace[c] \o <<Ev("ret", "createClip", i)>>
       IN IF task.config.addCaptions
          THEN /\ files' = WriteFile(fs, SrtPath(c, i), Content(task.moments[i], <<"srt">>))
               /\ clipTask' = [clipTask EXCEPT ![c] = [task EXCEPT !.pc = "addCaptionsToVideo"]]
               /\ clipTrace' = [clipTrace EXCEPT ![c] =
                      tr \o <<Ev("call", "addCaptionsToVideo", i)>>]
               /\ UNCHANGED clipJobs
          ELSE ZoomStage(c, task, fs, tr)
    /\ ClipFrame

\* The subtitle burn-in of addCaptionsToVideo returned: the subtitle file and
\* the base clip are deleted.
AddCaptionsReturns(c) ==
    /\ ClipAwaiting(c, "addCaptionsToVideo")
    /\ LET i == clipTask[c].i
           task == [clipTask[c] EXCEPT !.processedPath = CaptionedPath(c, i)]
           burnt == WriteFile(files, CaptionedPath(c, i),
                              Apply(files[BaseClipPath(c, i)], "captions"))
           fs == Unlink(Unlink(burnt, SrtPath(c, i)), BaseClipPath(c, i))
       IN ZoomStage(c, task, fs, clipTrace[c] \o <<Ev("ret", "addCaptionsToVideo", i)>>)
    /\ ClipFrame

\* The zoom/pan transform succeeded.
ZoomPanReturns(c) ==
    /\ ClipAwaiting(c, "addZoomPanEffect")
    /\ LET task == clipTask[c]
           fs == WriteFile(files, ZoomPath(c, task.i),
                           Apply(files[task.processedPath], "zoompan"))
       IN AfterZoom(c, task, fs, clipTrace[c] \o <<Ev("ret", "addZoomPanEffect", task.i)>>)
    /\ ClipFrame

\* The zoom/pan transform failed: addZoomPanEffect copies its input and
\* resolves normally.
ZoomPanFails(c) ==
    /\ ClipAwaiting(c, "addZoomPanEffect")
    /\ LET task == clipTask[c]
           fs == ZoomPanFallback(files, task.processedPath, ZoomPath(c, task.i))
       IN AfterZoom(c, task, fs, clipTrace[c] \o <<Ev("throw", "zoompan", task.i),
                                                 Ev("ret", "addZoomPanEffect", task.i)>>)
    /\ ClipFrame

\* generateThumbnail returned: the clip is ready.
ThumbnailReturns(c) ==
    /\ ClipAwaiting(c, "generateThumbnail")
    /\ LET task == clipTask[c]
       IN /\ files' = WriteFile(files, ThumbnailPath(c, task.i),
                                Content(task.moments[task.i], <<"thumbnail">>))
          /\ PushReady(c, task, clipTrace[c] \o <<Ev("ret", "generateThumbnail", task.i)>>)
    /\ ClipFrame

\* createClip, the subtitle burn-in or generateThumbnail threw.
ClipStageThrows(c) ==
    /\ c \in DOMAIN clipTask
    /\ clipTask[c].pc \in {"createClip", "addCaptionsToVideo", "generateThumbnail"}
    /\ PerClipCatch(c, clipTask[c], clipTask[c].pc,
                    clipTrace[c] \o <<Ev("throw", clipTask[c].pc, clipTask[c].i)>>)
    /\ UNCHANGED files
    /\ ClipFrame

----------------------------------------------------------------------------
\* Library functions called on their own (lib): the subtitle generator.
\* Times are integers, in milliseconds.

LibFrame == UNCHANGED <<jobs, clipJobs, files, ingestTask, clipTask, trace, clipTrace, reply>>

\* The arguments of generateSRT: segments with start <= end whose text is
\* their position in the list, and a moment with start < end.
CaptionTimes == {0, 1500, 4000}
CaptionSegmentLists ==
    UNION {{[k \in 1..n |-> [start |-> iv[k][1], end |-> iv[k][2], text |-> k]] :
               iv \in [1..n -> {p \in CaptionTimes \X CaptionTimes : p[1] <= p[2]}]} :
           n \in 0..MaxCaptionSegments}
CaptionMoments ==
    {[start |-> p[1], end |-> p[2]] : p \in {q \in CaptionTimes \X CaptionTimes : q[1] < q[2]}}

\* formatSRTTime: the hours, minutes, seconds and milliseconds fields.
FormatSRTTime(ms) ==
    <<ms \div 3600000, (ms % 3600000) \div 60000, (ms % 60000) \div 1000, ms % 1000>>

\* Mutant of GenerateSRT: every segment overlapping the moment is taken.
GenerateSRTOverlapping(segments, moment, addEmojis, lucky) ==
    LET relevantSegments ==
            SelectSeq(segments, LAMBDA s : s.end >= moment.start /\ s.start <= moment.end)
    IN [k \in DOMAIN relevantSegments |->
            [index |-> k,
             startTime |-> FormatSRTTime(relevantSegments[k].start - moment.start),
             endTime |-> FormatSRTTime(relevantSegments[k].end - moment.start),
             text |-> relevantSegments[k].text,
             emoji |-> addEmojis /\ k \in lucky]]

\* generateSRT: the cues of the subtitle file.  lucky holds the cues for which
\* an emoji was found and Math.random() > 0.5.
GenerateSRT(segments, moment, addEmojis, lucky) ==
    LET relevantSegments ==
            SelectSeq(segments, LAMBDA s : s.start >= moment.start /\ s.end <= moment.end)
    IN [k \in DOMAIN relevantSegments |->
            [index |-> k,
             startTime |-> FormatSRTTime(relevantSegments[k].start - moment.start),
             endTime |-> FormatSRTTime(relevantSegments[k].end - moment.start),
             text |-> relevantSegments[k].text,
             emoji |-> addEmojis /\ k \in lucky]]

InitSRT ==
    /\ jobs = <<>>
    /\ clipJobs = <<>>
    /\ files = <<>>
    /\ ingestTask = <<>>
    /\ clipTask = <<>>
    /\ trace = <<>>
    /\ clipTrace = <<>>
    /\ reply = NoReply
    /\ lib \in [pc : {"generateSRT"}, segments : CaptionSegmentLists,
                moment : CaptionMoments, addEmojis : BOOLEAN, out : {<<>>}]

GenerateSRTReturns(lucky) ==
    /\ lib.pc = "generateSRT"
    /\ lib' = [lib EXCEPT !.pc = "done",
                          !.out = GenerateSRT(lib.segments, lib.moment, lib.addEmojis, lucky)]
    /\ LibFrame

NextSRT == \E lucky \in SUBSET (1..MaxCaptionSegments) : GenerateSRTReturns(lucky)

SpecSRT == InitSRT /\ [][NextSRT]_vars

----------------------------------------------------------------------------
\* Library functions called on their own (lib): the moment detector.
\* Times are integers, in seconds; scores are integers, in hundredths.

\* Three transcript texts, and below what the lexicons and patterns of the
\* scorer find in each of them:
\*   dull  "The committee reviewed the quarterly figures in considerable detail."
\*   hot   "Wait, why? The secret truth!"
\*   mild  "It was amazing."
Texts == {"dull", "hot", "mild"}

\* VIRAL_KEYWORDS.filter(kw => lowerText.includes(kw)).
ViralKeywordsIn(t) ==
    CASE t = "hot" -> {"secret", "truth"}
      [] t = "mild" -> {"amazing"}
      [] OTHER -> {}

\* The matches of EMOTION_KEYWORDS, one per category and keyword.
EmotionKeywordsIn(t) ==
    CASE t = "hot" -> {<<"surprise", "wait">>, <<"curiosity", "why">>,
                       <<"controversy", "truth">>, <<"controversy", "secret">>}
      [] t = "mild" -> {<<"excitement", "amazing">>}
      [] OTHER -> {}

QuestionMarksIn == [t \in Texts |-> IF t = "hot" THEN 1 ELSE 0]
ExclamationsIn == [t \in Texts |-> IF t = "hot" THEN 1 ELSE 0]
SentencesIn == [t \in Texts |-> IF t = "hot" THEN 2 ELSE 1]
TextLength ==
    [t \in Texts |-> CASE t = "dull" -> 68
                      [] t = "hot" -> 28
                      [] t = "mild" -> 15]

\* The sum of f over the segments of a window.
RECURSIVE SumOver(_, _)
SumOver(f, windowSegments) ==
    IF windowSegments = <<>> THEN 0
    ELSE f[Head(windowSegments).text] + SumOver(f, Tail(windowSegments))

Min(a, b) == IF a <= b THEN a ELSE b

ExtractKeywords(windowSegments) ==
    UNION {ViralKeywordsIn(windowSegments[k].text) : k \in DOMAIN windowSegments}

EmotionMatches(windowSegments) ==
    UNION {EmotionKeywordsIn(windowSegments[k].text) : k \in DOMAIN windowSegments}

DetectEmotions(windowSegments) == {h[1] : h \in EmotionMatches(windowSegments)}

\* calculateViralScore of the joined text of a window.
CalculateViralScore(windowSegments) ==
    LET keywordMatches == Cardinality(ExtractKeywords(windowSegments))
        emotionCount == Cardinality(EmotionMatches(windowSegments))
        questionMarks == SumOver(QuestionMarksIn, windowSegments)
        exclamations == SumOver(ExclamationsIn, windowSegments)
        sentences == SumOver(SentencesIn, windowSegments)
        score == keywordMatches * 10 + emotionCount * 8 + questionMarks * 15
                 + exclamations * 10
                 + (IF SumOver(TextLength, windowSegments) < 50 * Len(windowSegments)
                    THEN 20 ELSE 0)
                 + (IF sentences >= 3 /\ sentences <= 8 THEN 15 ELSE 0)
    IN Min(score, 100)

\* generateReason: the reasons found, in order.
GenerateReason(windowSegments) ==
    LET reasons ==
            (IF SumOver(QuestionMarksIn, windowSegments) > 0
             THEN <<"Engaging question">> ELSE <<>>)
            \o (IF SumOver(ExclamationsIn, windowSegments) > 0
                THEN <<"High energy">> ELSE <<>>)
            \o (IF ExtractKeywords(windowSegments) # {}
                THEN <<"Viral keywords">> ELSE <<>>)
            \o (IF Cardinality(DetectEmotions(windowSegments)) > 2
                THEN <<"Emotional appeal">> ELSE <<>>)
    IN IF reasons = <<>> THEN <<"Interesting content">> ELSE reasons

\* The moment pushed for the window of segments i..j; the pair <<i, j>> stands
\* for its generated identifier.
MomentOf(segments, i, j) ==
    LET windowSegments == SubSeq(segments, i, j)
    IN [id |-> <<i, j>>,
        start |-> segments[i].start,
        end |-> segments[j].end,
        score |-> CalculateViralScore(windowSegments),
        text |-> [k \in DOMAIN windowSegments |-> windowSegments[k].text],
        reason |-> GenerateReason(windowSegments),
        emotions |-> DetectEmotions(windowSegments),
        keywords |-> ExtractKeywords(windowSegments)]

\* Mutant of ScanWindows: a window shorter than minDuration is scored too.
RECURSIVE ScanWindowsNoMinimum(_, _, _, _, _)
ScanWindowsNoMinimum(segments, minDuration, maxDuration, i, j) ==
    IF i > Len(segments) THEN <<>>
    ELSE IF j > Len(segments)
    THEN ScanWindowsNoMinimum(segments, minDuration, maxDuration, i + 1, i + 2)
    ELSE IF segments[j].end - segments[i].start > maxDuration
    THEN ScanWindowsNoMinimum(segments, minDuration, maxDuration, i + 1, i + 2)
    ELSE (IF MomentOf(segments, i, j).score > 50
          THEN <<MomentOf(segments, i, j)>> ELSE <<>>)
         \o ScanWindowsNoMinimum(segments, minDuration, maxDuration, i, j + 1)

\* The sliding-window loops from the 1-based pair (i, j) on: the moments
\* pushed, in the order of their discovery.  The inner loop starts at i + 1.
RECURSIVE ScanWindows(_, _, _, _, _)
ScanWindows(segments, minDuration, maxDuration, i, j) ==
    IF i > Len(segments) THEN <<>>
    ELSE IF j > Len(segments)
    THEN ScanWindows(segments, minDuration, maxDuration, i + 1, i + 2)
    ELSE IF segments[j].end - segments[i].start < minDuration
    THEN ScanWindows(segments, minDuration, maxDuration, i, j + 1)
    ELSE IF segments[j].end - segments[i].start > maxDuration
    THEN ScanWindows(segments, minDuration, maxDuration, i + 1, i + 2)
    ELSE (IF MomentOf(segments, i, j).score > 50
          THEN <<MomentOf(segments, i, j)>> ELSE <<>>)
         \o ScanWindows(segments, minDuration, maxDuration, i, j + 1)

\* Mutant of SortByScore: a moment is put in front of those of equal score.
RECURSIVE SortByScoreUnstable(_)
SortByScoreUnstable(moments) ==
    IF moments = <<>> THEN <<>>
    ELSE LET sorted == SortByScoreUnstable(SubSeq(moments, 1, Len(moments) - 1))
             last == moments[Len(moments)]
             k == Cardinality({n \in DOMAIN sorted : sorted[n].score > last.score})
         IN SubSeq(sorted, 1, k) \o <<last>> \o SubSeq(sorted, k + 1, Len(sorted))

\* The score of a ranking entry that carries no number as viralScore, which
\* its division by 10 leaves as it is; no score equals, exceeds or is
\* exceeded by it.
NaN == 0 - 1

\* ranking.viralScore / 10, in hundredths.
Tenth(viralScore) == IF viralScore = NaN THEN NaN ELSE viralScore * 10

\* The comparator (a, b) => b.score - a.score is negative for (x, y): x is
\* to stand before y.  A result that is no number counts as zero.
Before(x, y) == x.score # NaN /\ y.score # NaN /\ x.score > y.score

\* Array.prototype.sort on a list shorter than 64: the leading run is found
\* (and turned round when it is strictly descending in the comparator), and
\* each further element is put in place by binary insertion.
RECURSIVE RunEnd(_, _, _)
RunEnd(a, idx, isDescending) ==
    IF idx > Len(a) THEN Len(a)
    ELSE IF Before(a[idx], a[idx - 1]) = isDescending
    THEN RunEnd(a, idx + 1, isDescending)
    ELSE idx - 1

Reverse(a) == [k \in DOMAIN a |-> a[Len(a) + 1 - k]]

RECURSIVE InsertionPoint(_, _, _, _)
InsertionPoint(a, pivot, left, right) ==
    IF left >= right THEN left
    ELSE LET mid == left + (right - left) \div 2
         IN IF Before(pivot, a[mid])
            THEN InsertionPoint(a, pivot, left, mid)
            ELSE InsertionPoint(a, pivot, mid + 1, right)

RECURSIVE BinaryInsertionSort(_, _)
BinaryInsertionSort(a, start) ==
    IF start > Len(a) THEN a
    ELSE LET left == InsertionPoint(a, a[start], 1, start)
         IN BinaryInsertionSort(
                SubSeq(a, 1, left - 1) \o <<a[start]>> \o SubSeq(a, left, start - 1)
                    \o SubSeq(a, start + 1, Len(a)),
                start + 1)

\* moments.sort((a, b) => b.score - a.score).
SortByScore(moments) ==
    IF Len(moments) < 2 THEN moments
    ELSE LET isDescending == Before(moments[2], moments[1])
             runLength == RunEnd(moments, 3, isDescending)
         IN BinaryInsertionSort(
                IF isDescending
                THEN Reverse(SubSeq(moments, 1, runLength))
                         \o SubSeq(moments, runLength + 1, Len(moments))
                ELSE moments,
                runLength + 1)

\* moments.slice(0, n).
Slice(moments, n) == SubSeq(moments, 1, Min(n, Len(moments)))

TopCandidates == 20
TopMoments == 10

\* What the ranking service may do: throw (unreachable, timeout), or return a
\* content that does not parse, parses to an object without clips, parses to
\* one whose clips is not an array, or parses to a list of ranking entries.
\* An entry without reason has the empty reason, one without a number as
\* viralScore the score NaN.
RankingEntries == [clipNumber : 1..2, viralScore : {3, 15, NaN}, reason : {<<>>, <<"ai">>}]
Contents ==
    {[kind |-> k, clips |-> <<>>] : k \in {"unparsable", "noClips", "notArray"}}
    \cup {[kind |-> "clips", clips |-> c] : c \in UNION {[1..n -> RankingEntries] : n \in 0..2}}
Thrown == [kind |-> "throws", clips |-> <<>>]

\* Mutants of RefineWithAI: the last entry naming a position wins; the
\* moments no entry names are dropped; a failure of the ranking service
\* leaves no moments.
RefineWithAILastEntry(moments, response) ==
    IF response.kind \in {"throws", "unparsable", "notArray"}
    THEN moments
    ELSE LET rankings == response.clips
         IN [k \in DOMAIN moments |->
                LET hits == {n \in DOMAIN rankings : rankings[n].clipNumber = k}
                IN IF hits = {} THEN moments[k]
                   ELSE LET ranking == rankings[CHOOSE n \in hits : \A h \in hits : n >= h]
                        IN [moments[k] EXCEPT
                               !.score = Tenth(ranking.viralScore),
                               !.reason = IF ranking.reason # <<>>
                                          THEN ranking.reason ELSE @]]

RefineWithAIDropsUnranked(moments, response) ==
    IF response.kind \in {"throws", "unparsable", "notArray"}
    THEN moments
    ELSE SelectSeq(
            [k \in DOMAIN moments |->
                IF \E n \in DOMAIN response.clips : response.clips[n].clipNumber = k
                THEN [moments[k] EXCEPT !.reason = <<"ai">>]
                ELSE [moments[k] EXCEPT !.reason = <<>>]],
            LAMBDA m : m.reason # <<>>)

RefineWithAIFailsEmpty(moments, response) ==
    IF response.kind = "clips" THEN moments ELSE <<>>

\* refineWithAI: the catch block returns the moments it was given; otherwise
\* each moment takes score and reason of the first entry naming its position.
RefineWithAI(moments, response) ==
    IF response.kind \in {"throws", "unparsable", "notArray"}
    THEN moments
    ELSE LET rankings == response.clips
         IN [k \in DOMAIN moments |->
                LET hits == {n \in DOMAIN rankings : rankings[n].clipNumber = k}
                IN IF hits = {} THEN moments[k]
                   ELSE LET ranking == rankings[CHOOSE n \in hits : \A h \in hits : n <= h]
                        IN [moments[k] EXCEPT
                               !.score = Tenth(ranking.viralScore),
                               !.reason = IF ranking.reason # <<>>
                                          THEN ranking.reason ELSE @]]

\* The arguments of detectViralMoments: up to MaxSegments adjoining segments
\* of 0 or 15 seconds, or seven adjoining segments of 5 seconds; the default
\* duration bounds or others.
RECURSIVE StartOf(_, _)
StartOf(shape, k) == IF k = 1 THEN 0 ELSE StartOf(shape, k - 1) + shape[k - 1][1]
Shapes ==
    UNION {[1..n -> {0, 15} \X Texts] : n \in 1..MaxSegments}
    \cup [1..7 -> {5} \X {"hot", "dull"}]
SegmentLists ==
    {[k \in DOMAIN shape |-> [start |-> StartOf(shape, k),
                              end |-> StartOf(shape, k) + shape[k][1],
                              text |-> shape[k][2]]] : shape \in Shapes}
DurationBounds == {<<10, 60>>, <<0, 20>>}

InitDetect ==
    /\ jobs = <<>>
    /\ clipJobs = <<>>
    /\ files = <<>>
    /\ ingestTask = <<>>
    /\ clipTask = <<>>
    /\ trace = <<>>
    /\ clipTrace = <<>>
    /\ reply = NoReply
    /\ \E segments \in SegmentLists, bounds \in DurationBounds :
        lib = [pc |-> "detectViralMoments", segments |-> segments,
               minDuration |-> bounds[1], maxDuration |-> bounds[2],
               candidates |-> <<>>, top |-> <<>>,
               response |-> [kind |-> "none", clips |-> <<>>],
               refined |-> <<>>, out |-> <<>>]

\* detectViralMoments up to its await of refineWithAI's request.
DetectScans ==
    /\ lib.pc = "detectViralMoments"
    /\ LET moments == ScanWindows(lib.segments, lib.minDuration, lib.maxDuration, 1, 2)
       IN lib' = [lib EXCEPT !.pc = "openai",
                             !.candidates = moments,
                             !.top = Slice(SortByScore(moments), TopCandidates)]
    /\ LibFrame

\* The rest of refineWithAI and of detectViralMoments.
Finished(call, response) ==
    LET refinedMoments == RefineWithAI(call.top, response)
    IN [call EXCEPT !.pc = "done",
                    !.response = response,
                    !.refined = refinedMoments,
                    !.out = Slice(SortByScore(refinedMoments), TopMoments)]

OpenAIReturns(content) ==
    /\ lib.pc = "openai"
    /\ lib' = Finished(lib, content)
    /\ LibFrame

OpenAIThrows ==
    /\ lib.pc = "openai"
    /\ lib' = Finished(lib, Thrown)
    /\ LibFrame

NextDetect ==
    \/ DetectScans
    \/ \E content \in Contents : OpenAIReturns(content)
    \/ OpenAIThrows

SpecDetect == InitDetect /\ [][NextDetect]_vars

----------------------------------------------------------------------------
\* The request handlers as a whole: validation, and the status and download
\* routes.

\* A URL is a prefix and the characters after it; the empty string, which
\* !url takes like a missing field, is the empty prefix with nothing after.
Urls ==
    {<<"", <<>>>>,
     <<"https://www.youtube.com/watch?v=", <<"a", "b", "&", "t">>>>,
     <<"https://youtu.be/", <<"a", "b">>>>,
     <<"https://youtu.be/", <<"?", "t">>>>,
     <<"https://www.youtube.com/embed/", <<>>>>,
     <<"https://vimeo.com/", <<"a", "b">>>>}

\* The characters the capture group [^&\n?#]+ stops at.
Separators == {"&", "\n", "?", "#"}

\* The longest prefix of chars free of separators.
RECURSIVE Capture(_)
Capture(chars) ==
    IF chars = <<>> \/ Head(chars) \in Separators
    THEN <<>>
    ELSE <<Head(chars)>> \o Capture(Tail(chars))

\* extractYouTubeId: the capture after one of the three patterns, or null
\* (the empty sequence) when none matches or the capture would be empty.
ExtractYouTubeId(url) ==
    IF url[1] \in {"https://www.youtube.com/watch?v=", "https://youtu.be/",
                   "https://www.youtube.com/embed/"}
    THEN Capture(url[2])
    ELSE <<>>

\* formData.get('file'): null, or a file of this name.
FileNames == {"clip.mov", "talk.mp3"}
\* path.extname(file.name).toLowerCase().
Extension(file) == IF file = "talk.mp3" THEN ".mp3" ELSE ".mov"
IsAudio(file) == Extension(file) \in {".mp3", ".wav", ".m4a", ".aac"}

IngestRequests ==
    [contentType : {"application/json"}, url : Urls, file : {"null"}]
        \cup [contentType : {"multipart/form-data", "text/plain", ""},
              url : {<<"", <<>>>>}, file : FileNames \cup {"null"}]

\* The early returns of POST /api/ingest: the error the request is answered
\* with, or "" when it passes validation.
IngestError(request) ==
    IF request.contentType = "application/json"
    THEN IF request.url = <<"", <<>>>> THEN "URL is required"
         ELSE IF ExtractYouTubeId(request.url) = <<>> THEN "Invalid YouTube URL"
         ELSE ""
    ELSE IF request.contentType = "multipart/form-data"
    THEN IF request.file = "null" THEN "File is required" ELSE ""
    ELSE "Invalid content type"

\* Mutant of Rejects: the job entry is created before the request is checked.
RejectsAfterCreate(route, error) ==
    /\ reply' = ErrorResponse(route, 400, error)
    /\ jobs' = MapSet(jobs, NewJobId, [id |-> NewJobId, status |-> "processing",
                                       progress |-> 0, currentStep |-> "Downloading video"])
    /\ UNCHANGED <<clipJobs, files, ingestTask, clipTask, trace, clipTrace, lib>>

\* return NextResponse.json({ error }, { status: 400 }) before anything is
\* written.
Rejects(route, error) ==
    /\ reply' = ErrorResponse(route, 400, error)
    /\ UNCHANGED <<jobs, clipJobs, files, ingestTask, clipTask, trace, clipTrace, lib>>

\* POST /api/ingest on any request.
IngestHandler(request) ==
    IF IngestError(request) # ""
    THEN Rejects("ingest", IngestError(request))
    ELSE IF request.contentType = "application/json"
    THEN IngestPOSTYouTube
    ELSE IngestPOSTUpload(IsAudio(request.file))

\* The body of POST /api/process: jobId (0 when missing), momentIds (missing,
\* a string, or an array of up to two of the known ids and an unknown one)
\* and config.
MomentIdsValues ==
    [kind : {"missing", "string"}, ids : {<<>>}]
        \cup [kind : {"array"},
              ids : UNION {[1..n -> 1..(MaxMoments + 1)] : n \in 0..2}]

ProcessRequests ==
    [jobId : 0..2, momentIds : MomentIdsValues,
     config : {[addCaptions |-> FALSE, addZoomPan |-> FALSE]}]

\* The early returns of POST /api/process.
ProcessError(request) ==
    IF request.jobId = 0 \/ request.momentIds.kind # "array"
    THEN "jobId and momentIds array are required"
    ELSE IF request.jobId \notin DOMAIN jobs \/ jobs[request.jobId].status # "completed"
    THEN "Invalid or incomplete job"
    ELSE IF SelectedMoments(jobs[request.jobId].result.moments, request.momentIds.ids) = <<>>
    THEN "No valid moments selected"
    ELSE ""

\* POST /api/process on any request.
ProcessHandler(request) ==
    IF ProcessError(request) # ""
    THEN Rejects("process", ProcessError(request))
    ELSE ProcessPOST(request.jobId, request.momentIds.ids, request.config)

\* GET /api/status/[jobId] and GET /api/clips/[jobId]: the entry under the
\* key in the route's own registry, or 404.
Lookup(route, store, jobId, missing) ==
    IF jobId \in DOMAIN store
    THEN [route |-> route, status |-> 200, body |-> store[jobId]]
    ELSE ErrorResponse(route, 404, missing)

StatusGET(jobId) ==
    /\ reply' = Lookup("status", jobs, jobId, "Job not found")
    /\ UNCHANGED <<jobs, clipJobs, files, ingestTask, clipTask, trace, clipTrace, lib>>

ClipsGET(jobId) ==
    /\ reply' = Lookup("clips", clipJobs, jobId, "Clip job not found")
    /\ UNCHANGED <<jobs, clipJobs, files, ingestTask, clipTask, trace, clipTrace, lib>>

----------------------------------------------------------------------------
Init ==
    /\ jobs = <<>>
    /\ clipJobs = <<>>
    /\ files = <<>>
    /\ ingestTask = <<>>
    /\ clipTask = <<>>
    /\ trace = <<>>
    /\ clipTrace = <<>>
    /\ lib = [pc |-> "idle"]
    /\ reply = NoReply

\* One submission followed by one render request against it, the flow of the
\* client page (handleSubmit, then handleProcessClips once the ingestion has
\* completed).  The handlers themselves accept any number of requests; it is
\* this next-state relation that submits one of each, so the generated job id
\* and clip job id are both 1.
SubmitYouTube == jobs = <<>> /\ IngestPOSTYouTube
SubmitUpload(isAudio) == jobs = <<>> /\ IngestPOSTUpload(isAudio)
SubmitProcess(jobId, momentIds, config) ==
    clipJobs = <<>> /\ ProcessPOST(jobId, momentIds, config)

Next ==
    \/ SubmitYouTube
    \/ \E isAudio \in BOOLEAN : SubmitUpload(isAudio)
    \/ \E j \in {1} :
        \/ \E s \in Transcripts : YTTranscriptReturns(j, s)
        \/ YTTranscriptThrows(j)
        \/ YTDownloadReturns(j)
        \/ YTExtractReturns(j)
        \/ \E s \in Transcripts : YTTranscribeReturns(j, s)
        \/ \E m \in DetectResults : YTDetectReturns(j, m)
        \/ \E d \in Durations : DurationReturns(j, d)
        \/ UPExtractReturns(j)
        \/ \E s \in Transcripts : UPTranscribeReturns(j, s)
        \/ \E m \in DetectResults : UPDetectReturns(j, m)
        \/ IngestStageThrows(j)
    \/ \E jobId \in {1}, momentIds \in MomentIdLists, config \in Configs :
        SubmitProcess(jobId, momentIds, config)
    \/ \E c \in {2} :
        \/ CreateClipReturns(c)
        \/ AddCaptionsReturns(c)
        \/ ZoomPanReturns(c)
        \/ ZoomPanFails(c)
        \/ ThumbnailReturns(c)
        \/ ClipStageThrows(c)

Spec == Init /\ [][Next]_vars

\* The boundary seen by a client that also sends requests the page never
\* sends: any request body to either POST route and a status poll at any
\* time, with one accepted submission and one accepted render request.
IngestRequest(request) ==
    /\ IngestError(request) = "" => jobs = <<>>
    /\ IngestHandler(request)

ProcessRequest(request) ==
    /\ ProcessError(request) = "" => clipJobs = <<>>
    /\ ProcessHandler(request)

NextAPI ==
    \/ \E request \in IngestRequests : IngestRequest(request)
    \/ \E request \in ProcessRequests : ProcessRequest(request)
    \/ \E jobId \in 1..3 : StatusGET(jobId)
    \/ \E jobId \in 1..3 : ClipsGET(jobId)
    \/ \E j \in {1} :
        \/ \E s \in Transcripts : YTTranscriptReturns(j, s)
        \/ YTTranscriptThrows(j)
        \/ YTDownloadReturns(j)
        \/ YTExtractReturns(j)
        \/ \E s \in Transcripts : YTTranscribeReturns(j, s)
        \/ \E m \in DetectResults : YTDetectReturns(j, m)
        \/ \E d \in Durations : DurationReturns(j, d)
        \/ UPExtractReturns(j)
        \/ \E s \in Transcripts : UPTranscribeReturns(j, s)
        \/ \E m \in DetectResults : UPDetectReturns(j, m)
        \/ IngestStageThrows(j)
    \/ \E c \in {2} :
        \/ CreateClipReturns(c)
        \/ ThumbnailReturns(c)
        \/ ClipStageThrows(c)

SpecAPI == Init /\ [][NextAPI]_vars

\* The steps of the background task of ingestion job j, and of clip job c:
\* the collaborator it awaits returns or throws.
IngestTaskStep(j) ==
    \/ \E s \in Transcripts : YTTranscriptReturns(j, s)
    \/ YTTranscriptThrows(j)
    \/ YTDownloadReturns(j)
    \/ YTExtractReturns(j)
    \/ \E s \in Transcripts : YTTranscribeReturns(j, s)
    \/ \E m \in DetectResults : YTDetectReturns(j, m)
    \/ \E d \in Durations : DurationReturns(j, d)
    \/ UPExtractReturns(j)
    \/ \E s \in Transcripts : UPTranscribeReturns(j, s)
    \/ \E m \in DetectResults : UPDetectReturns(j, m)
    \/ IngestStageThrows(j)

ClipTaskStep(c) ==
    \/ CreateClipReturns(c)
    \/ AddCaptionsReturns(c)
    \/ ZoomPanReturns(c)
    \/ ZoomPanFails(c)
    \/ ThumbnailReturns(c)
    \/ ClipStageThrows(c)

\* The event loop runs every task whose awaited call has settled, and every
\* call of a collaborator settles: no task waits forever.
Fairness ==
    /\ \A j \in {1} : WF_vars(IngestTaskStep(j))
    /\ \A c \in {2} : WF_vars(ClipTaskStep(c))

\* One submission and one render request against it, with every effect on
\* or every effect off.
NextFair ==
    \/ SubmitYouTube
    \/ \E isAudio \in BOOLEAN : SubmitUpload(isAudio)
    \/ \E j \in {1} : IngestTaskStep(j)
    \/ \E jobId \in {1}, momentIds \in MomentIdLists, on \in BOOLEAN :
        SubmitProcess(jobId, momentIds, [addCaptions |-> on, addZoomPan |-> on])
    \/ \E c \in {2} : ClipTaskStep(c)

SpecFair == Init /\ [][NextFair]_vars /\ Fairness

\* Several clients at once: up to MaxJobs submissions and render requests in
\* any order, the tasks they start running interleaved.  Uploads are video
\* files; every render request asks for the first moment, without captions
\* and zoom.
JobIds == 1..MaxJobs
Submitted == Cardinality(DOMAIN jobs) + Cardinality(DOMAIN clipJobs)

AnotherYouTube == Submitted < MaxJobs /\ IngestPOSTYouTube
AnotherUpload(isAudio) == Submitted < MaxJobs /\ IngestPOSTUpload(isAudio)
AnotherProcess(jobId) ==
    /\ Submitted < MaxJobs
    /\ ProcessPOST(jobId, <<1>>, [addCaptions |-> FALSE, addZoomPan |-> FALSE])

NextMany ==
    \/ AnotherYouTube
    \/ \E isAudio \in {FALSE} : AnotherUpload(isAudio)
    \/ \E jobId \in JobIds : AnotherProcess(jobId)
    \/ \E j \in JobIds :
        \/ \E s \in {1} : YTTranscriptReturns(j, s)
        \/ YTTranscriptThrows(j)
        \/ YTDownloadReturns(j)
        \/ YTExtractReturns(j)
        \/ \E s \in {1} : YTTranscribeReturns(j, s)
        \/ \E m \in {<<Moment(1)>>} : YTDetectReturns(j, m)
        \/ \E d \in {45} : DurationReturns(j, d)
        \/ UPExtractReturns(j)
        \/ \E s \in {1} : UPTranscribeReturns(j, s)
        \/ \E m \in {<<Moment(1)>>} : UPDetectReturns(j, m)
        \/ IngestStageThrows(j)
    \/ \E c \in JobIds :
        \/ CreateClipReturns(c)
        \/ ThumbnailReturns(c)
        \/ ClipStageThrows(c)

SpecMany == Init /\ [][NextMany]_vars

----------------------------------------------------------------------------
\* Reading the traces.

\* The collaborator events of a trace, without the registry writes.
StageEvents(tr) == SelectSeq(tr, LAMBDA e : e.ev # "set")
Pair(e) == <<e.ev, e.fn>>

Occurs(tr, ev, fn) == \E k \in DOMAIN tr : tr[k].ev = ev /\ tr[k].fn = fn

\* call and return of each stage in turn; the first stage throws when
\* firstThrows (the fast transcript attempt).
ExpectedEvents(stages, firstThrows) ==
    [k \in 1..(2 * Len(stages)) |->
        IF k % 2 = 1 THEN <<"call", stages[(k + 1) \div 2]>>
        ELSE <<IF k = 2 /\ firstThrows THEN "throw" ELSE "ret", stages[k \div 2]>>]

\* The stage events of tr follow the expected ones, up to a throw that takes
\* the place of a return and ends the run.
FollowsOrder(tr, expected) ==
    LET S == StageEvents(tr)
    IN /\ Len(S) <= Len(expected)
       /\ \A k \in DOMAIN S :
            \/ Pair(S[k]) = expected[k]
            \/ /\ k = Len(S)
               /\ expected[k][1] = "ret"
               /\ Pair(S[k]) = <<"throw", expected[k][2]>>

RanToEnd(tr, expected) ==
    /\ Len(StageEvents(tr)) = Len(expected)
    /\ Pair(StageEvents(tr)[Len(expected)]) = expected[Len(expected)]

ClipStages == {"createClip", "addCaptionsToVideo", "generateThumbnail"}

\* The crop, caption or thumbnail stage of the k-th moment of clip job c threw.
StageFailed(c, k) ==
    \E n \in DOMAIN clipTrace[c] :
        /\ clipTrace[c][n].ev = "throw"
        /\ clipTrace[c][n].fn \in ClipStages
        /\ clipTrace[c][n].val = k

\* The zoom/pan transform of the k-th moment of clip job c failed.
ZoomFailed(c, k) ==
    \E n \in DOMAIN clipTrace[c] : clipTrace[c][n] = Ev("throw", "zoompan", k)

\* The files that exist under the id of the k-th clip of clip job c.
ClipFiles(c, k) == {p \in DOMAIN files : p[1] = "clips" /\ p[2] = c /\ p[3] = k}

Terminal(entry) == entry.status \in {"completed", "failed"}

----------------------------------------------------------------------------
\* C1: clip rendering is failure-isolated.  While processClips runs it has one
\* entry per moment already handled, and once it has finished the job carries a
\* result with exactly one entry per selected moment, in which a moment whose
\* crop, caption or thumbnail stage threw is ready = FALSE with an error and
\* every other moment is ready = TRUE.
C1_FailureIsolated ==
    \A c \in DOMAIN clipTask :
        LET task == clipTask[c]
            n == Len(task.moments)
        IN /\ Len(task.clips) = task.i - 1
           /\ task.pc = "done" =>
                /\ task.i = n + 1
                /\ "result" \in DOMAIN clipJobs[c]
                /\ Len(clipJobs[c].result) = n
                /\ \A k \in 1..n :
                    LET clip == clipJobs[c].result[k]
                    IN /\ clip.moment = task.moments[k]
                       /\ clip.ready = ~StageFailed(c, k)
                       /\ ~clip.ready => "error" \in DOMAIN clip

\* Two moments, the crop of the first one threw and nothing else did: one
\* non-ready and one ready entry.
C1_Witness ==
    \E c \in DOMAIN clipTask :
        /\ clipTask[c].pc = "done"
        /\ Len(clipTask[c].moments) = 2
        /\ \E n \in DOMAIN clipTrace[c] : clipTrace[c][n] = Ev("throw", "createClip", 1)
        /\ ~StageFailed(c, 2)
        /\ ~clipJobs[c].result[1].ready
        /\ clipJobs[c].result[2].ready

\* C2: per-clip failures never fail the clip job.  No clip job entry is ever in
\* status failed, and a finished processClips leaves it completed.
C2_ClipJobNeverFailed ==
    \A c \in DOMAIN clipJobs :
        /\ clipJobs[c].status # "failed"
        /\ clipTask[c].pc = "done" => clipJobs[c].status = "completed"

\* A completed job of two moments in which every clip failed.
C2_Witness ==
    \E c \in DOMAIN clipJobs :
        /\ clipJobs[c].status = "completed"
        /\ Len(clipJobs[c].result) = 2
        /\ \A k \in 1..2 : ~clipJobs[c].result[k].ready /\ StageFailed(c, k)

\* C3: a pan/zoom failure never drops a clip.  A handled moment whose zoom/pan
\* transform failed while its other stages succeeded is ready, and its final
\* video exists with the content of the pre-effect video: the captioned clip
\* when captions are on, the base clip otherwise.
C3_ZoomFailureKeepsClip ==
    \A c \in DOMAIN clipTask :
        \A k \in 1..Len(clipTask[c].clips) :
            (ZoomFailed(c, k) /\ ~StageFailed(c, k)) =>
                LET clip == clipTask[c].clips[k]
                IN /\ clip.ready
                   /\ clip.videoPath \in DOMAIN files
                   /\ files[clip.videoPath] =
                        Content(clip.moment,
                                IF clipTask[c].config.addCaptions
                                THEN <<"crop", "captions">>
                                ELSE <<"crop">>)

\* A ready clip with captions whose zoom/pan failed, and one without captions.
C3_Witness ==
    \E c \in DOMAIN clipTask :
        /\ clipTask[c].pc = "done"
        /\ clipTask[c].config.addCaptions
        /\ \E k \in 1..Len(clipTask[c].clips) :
            ZoomFailed(c, k) /\ clipTask[c].clips[k].ready

\* C4: intermediate clip artifacts never accumulate.  For a ready clip the only
\* files under its clip id are the final video and the thumbnail.
C4_NoIntermediateLeft ==
    \A c \in DOMAIN clipTask :
        \A k \in 1..Len(clipTask[c].clips) :
            clipTask[c].clips[k].ready =>
                ClipFiles(c, k) = {FinalClipPath(c, k), ThumbnailPath(c, k)}

\* C5: the progress a reader observes for an ingestion job never decreases,
\* from creation through to the terminal snapshot: every step leaves each
\* entry with a progress that is at least the one it had.
C5_ProgressMonotone ==
    [][\A j \in DOMAIN jobs :
            "progress" \in DOMAIN jobs[j] =>
                /\ "progress" \in DOMAIN jobs'[j]
                /\ jobs'[j].progress >= jobs[j].progress]_vars

\* C6: every job becomes terminal exactly once.  An entry is created in status
\* processing and, once it is completed or failed, no step writes to it again.
C6_TerminalOnce ==
    [][/\ \A j \in DOMAIN jobs' :
            /\ j \notin DOMAIN jobs => jobs'[j].status = "processing"
            /\ (j \in DOMAIN jobs /\ Terminal(jobs[j])) =>
                    jobs'[j] = jobs[j] /\ trace'[j] = trace[j]
       /\ \A c \in DOMAIN clipJobs' :
            /\ c \notin DOMAIN clipJobs => clipJobs'[c].status = "processing"
            /\ (c \in DOMAIN clipJobs /\ Terminal(clipJobs[c])) =>
                    clipJobs'[c] = clipJobs[c] /\ clipTrace'[c] = clipTrace[c]]_vars

\* A completed ingestion job and a completed clip job of it, both past their
\* single terminal write.
C6_Witness ==
    /\ \E j \in DOMAIN jobs : jobs[j].status = "completed"
    /\ \E c \in DOMAIN clipJobs :
        /\ clipJobs[c].status = "completed"
        /\ \E k \in 1..Len(clipJobs[c].result) : ~clipJobs[c].result[k].ready

\* C7: in an ingestion job a throw of any stage other than the fast transcript
\* attempt leaves the entry failed with that stage's error message and without
\* a result, segments, moments or media path.
C7_ThrowFailsWithoutResult ==
    \A j \in DOMAIN jobs :
        \A k \in DOMAIN trace[j] :
            (trace[j][k].ev = "throw" /\ trace[j][k].fn # "getYouTubeTranscript") =>
                /\ jobs[j].status = "failed"
                /\ jobs[j].error = trace[j][k].fn
                /\ DOMAIN jobs[j] \cap {"result", "segments", "moments", "videoPath"} = {}

\* The duration probe threw after segments and moments had been computed.
C7_Witness ==
    \E j \in DOMAIN jobs :
        /\ jobs[j].status = "failed"
        /\ Occurs(trace[j], "throw", "getVideoDuration")
        /\ Len(ingestTask[j].moments) > 0
        /\ ingestTask[j].segments # 0

\* C8: when the fast transcript fetch succeeds, audio extraction and
\* transcription are never invoked, detection is invoked only after the
\* download returned and on the segments of the fast transcript, and the
\* completed result carries those segments and a downloaded source.
C8_FastTranscriptPath ==
    \A j \in DOMAIN jobs :
        \A n \in DOMAIN trace[j] :
            (trace[j][n].ev = "ret" /\ trace[j][n].fn = "getYouTubeTranscript") =>
                /\ ~Occurs(trace[j], "call", "extractAudioFromVideo")
                /\ ~Occurs(trace[j], "call", "transcribeVideo")
                /\ \A k \in DOMAIN trace[j] :
                    (trace[j][k].ev = "call" /\ trace[j][k].fn = "detectViralMoments") =>
                        /\ trace[j][k].val = trace[j][n].val
                        /\ \E d \in 1..(k - 1) :
                            trace[j][d] = Ev("ret", "downloadYouTubeVideo", 0)
                /\ jobs[j].status = "completed" =>
                        /\ jobs[j].result.segments = trace[j][n].val
                        /\ jobs[j].result.videoPath \in DOMAIN files

\* A completed remote-URL job whose segments came from the fast transcript.
C8_Witness ==
    \E j \in DOMAIN jobs :
        /\ jobs[j].status = "completed"
        /\ Occurs(trace[j], "ret", "getYouTubeTranscript")
        /\ jobs[j].result.segments \in Transcripts
        /\ Len(jobs[j].result.moments) > 0

YouTubeFallbackStages ==
    <<"getYouTubeTranscript", "downloadYouTubeVideo", "extractAudioFromVideo",
      "transcribeVideo", "detectViralMoments", "getVideoDuration">>

\* C9: when the fast transcript fetch fails the job is not failed by it, and the
\* stages run in the order download, extract audio, transcribe, detect, measure
\* duration, each called only after the previous one returned; the job is
\* completed exactly when the last one returned, and failed only by a throw of
\* one of these later stages.
C9_FallbackOrder ==
    \A j \in DOMAIN jobs :
        Occurs(trace[j], "throw", "getYouTubeTranscript") =>
            LET expected == ExpectedEvents(YouTubeFallbackStages, TRUE)
                S == StageEvents(trace[j])
            IN /\ FollowsOrder(trace[j], expected)
               /\ jobs[j].status = "completed" <=> RanToEnd(trace[j], expected)
               /\ jobs[j].status = "failed" =>
                    /\ Len(S) > 2
                    /\ S[Len(S)].ev = "throw"

\* The fast transcript failed and the job completed through all five stages.
C9_Witness ==
    \E j \in DOMAIN jobs :
        /\ Occurs(trace[j], "throw", "getYouTubeTranscript")
        /\ jobs[j].status = "completed"
        /\ Occurs(trace[j], "ret", "transcribeVideo")

UploadStages ==
    <<"extractAudioFromVideo", "transcribeVideo", "detectViralMoments", "getVideoDuration">>
AudioStages == <<"execAsync", "transcribeVideo", "detectViralMoments">>

\* C10: for an uploaded file the stages run in the order extract audio (resample
\* for an audio file), transcribe, detect, measure duration; for an audio source
\* the duration probe is never invoked and the completed result has duration 0,
\* for a video upload the completed result has the probed duration.
C10_UploadOrder ==
    \A j \in DOMAIN jobs :
        ingestTask[j].source # "youtube" =>
            LET audio == ingestTask[j].source = "audio"
                expected == ExpectedEvents(IF audio THEN AudioStages ELSE UploadStages, FALSE)
                S == StageEvents(trace[j])
            IN /\ FollowsOrder(trace[j], expected)
               /\ jobs[j].status = "completed" <=> RanToEnd(trace[j], expected)
               /\ audio => ~Occurs(trace[j], "call", "getVideoDuration")
               /\ jobs[j].status = "completed" =>
                    jobs[j].result.duration = IF audio THEN 0 ELSE S[Len(S)].val

\* A completed audio job: the probe was never called and the duration is 0.
C10_Witness ==
    \E j \in DOMAIN jobs :
        /\ jobs[j].status = "completed"
        /\ ingestTask[j].source = "audio"
        /\ jobs[j].result.duration = 0
        /\ Len(jobs[j].result.moments) > 0

----------------------------------------------------------------------------
\* The entry of a clip job whose loop is at 1-based index task.i.
C11_Snapshot ==
    \A c \in DOMAIN clipTask :
        LET task == clipTask[c]
            total == Len(task.moments)
            entry == clipJobs[c]
        IN /\ entry.totalClips = total
           /\ entry.processedClips <= entry.totalClips
           /\ IF task.pc # "done"
              THEN /\ entry.status = "processing"
                   /\ entry.processedClips = task.i - 1
                   /\ entry.progress * total <= (task.i - 1) * 100
                   /\ (task.i - 1) * 100 < (entry.progress + 1) * total
              ELSE /\ entry.status = "completed"
                   /\ entry.progress = 100
                   /\ entry.processedClips = total
                   /\ Len(entry.result) = total

\* A step never lowers the progress or the processed count of a clip job.
C11_Monotone ==
    \A c \in DOMAIN clipJobs :
        /\ clipJobs'[c].progress >= clipJobs[c].progress
        /\ clipJobs'[c].processedClips >= clipJobs[c].processedClips

\* C11: the snapshot written before the moment at 0-based index i is handled
\* has progress floor(i / total * 100) and processedClips = i; the terminal
\* snapshot is completed with progress 100, processedClips = totalClips = total
\* and the full result; so progress and processedClips never decrease and
\* processedClips never exceeds totalClips.
C11_ProgressTracksIndex == []C11_Snapshot /\ [][C11_Monotone]_vars

\* The second of three moments is being handled: progress 33, one processed.
C11_Witness ==
    \E c \in DOMAIN clipTask :
        /\ clipTask[c].pc # "done"
        /\ clipTask[c].i = 2
        /\ Len(clipTask[c].moments) = 3
        /\ clipJobs[c].progress = 33
        /\ clipJobs[c].processedClips = 1

----------------------------------------------------------------------------
\* C12: the result of a clip job preserves the order of the selected moments:
\* its k-th entry, ready or failed, carries the k-th selected moment.
C12_OrderPreserved ==
    \A c \in DOMAIN clipJobs :
        "result" \in DOMAIN clipJobs[c] =>
            LET result == clipJobs[c].result
            IN [k \in 1..Len(result) |-> result[k].moment] = clipTask[c].moments

\* A finished job over three distinct moments whose second clip failed.
C12_Witness ==
    \E c \in DOMAIN clipJobs :
        /\ "result" \in DOMAIN clipJobs[c]
        /\ Len(clipJobs[c].result) = 3
        /\ clipJobs[c].result[1].ready
        /\ ~clipJobs[c].result[2].ready
        /\ clipJobs[c].result[3].ready
        /\ clipJobs[c].result[1].moment # clipJobs[c].result[3].moment

----------------------------------------------------------------------------
\* C13: a job with addCaptions = FALSE and addZoomPan = FALSE calls only the
\* crop and the thumbnail stage, never the caption or the pan/zoom stage, no
\* subtitle file ever exists for it, and over one selected moment it ends with
\* exactly one clip entry.
C13_PlainClipStages ==
    \A c \in DOMAIN clipTask :
        LET task == clipTask[c]
        IN (~task.config.addCaptions /\ ~task.config.addZoomPan) =>
            /\ \A n \in DOMAIN clipTrace[c] :
                 clipTrace[c][n].ev = "call" =>
                    clipTrace[c][n].fn \in {"createClip", "generateThumbnail"}
            /\ \A k \in 1..Len(task.moments) : SrtPath(c, k) \notin DOMAIN files
            /\ (task.pc = "done" /\ Len(task.moments) = 1) =>
                    Len(clipJobs[c].result) = 1

\* A finished plain job over one moment whose clip is ready: crop and
\* thumbnail both returned.
C13_Witness ==
    \E c \in DOMAIN clipTask :
        /\ ~clipTask[c].config.addCaptions
        /\ ~clipTask[c].config.addZoomPan
        /\ clipTask[c].pc = "done"
        /\ Len(clipTask[c].moments) = 1
        /\ clipJobs[c].result[1].ready
        /\ Occurs(clipTrace[c], "ret", "createClip")
        /\ Occurs(clipTrace[c], "ret", "generateThumbnail")

----------------------------------------------------------------------------
\* The time a formatted timestamp stands for, in milliseconds.
TimeValue(t) == t[1] * 3600000 + t[2] * 60000 + t[3] * 1000 + t[4]

Contained(segment, moment) ==
    segment.start >= moment.start /\ segment.end <= moment.end

\* C14: a segment is on the subtitle track of a moment if and only if
\* segment.start >= moment.start and segment.end <= moment.end (equal bounds
\* are in, a partial overlap is out), and every cue starts at the segment's
\* start relative to the clip start, which is not negative.
C14_CaptionContainment ==
    lib.pc = "done" =>
        /\ \A k \in DOMAIN lib.segments :
             (\E n \in DOMAIN lib.out : lib.out[n].text = lib.segments[k].text)
                <=> Contained(lib.segments[k], lib.moment)
        /\ \A n \in DOMAIN lib.out :
             LET segment == lib.segments[lib.out[n].text]
             IN /\ \A f \in 1..4 : lib.out[n].startTime[f] >= 0
                /\ TimeValue(lib.out[n].startTime) = segment.start - lib.moment.start
                /\ TimeValue(lib.out[n].endTime) = segment.end - lib.moment.start

\* A track with one cue: a segment with the moment's own bounds is on it, one
\* that starts before the moment and ends inside it is not.
C14_Witness ==
    /\ lib.pc = "done"
    /\ Len(lib.segments) = 2
    /\ lib.segments[1].start < lib.moment.start
    /\ lib.segments[1].end > lib.moment.start
    /\ lib.segments[1].end <= lib.moment.end
    /\ lib.segments[2].start = lib.moment.start
    /\ lib.segments[2].end = lib.moment.end
    /\ Len(lib.out) = 1
    /\ lib.out[1].text = 2

----------------------------------------------------------------------------
\* Reading a call of the detector.

Scanned == lib.pc \in {"openai", "done"}
Span(segments, i, j) == segments[j].end - segments[i].start
WithinBounds(m) ==
    /\ m.end - m.start >= lib.minDuration
    /\ m.end - m.start <= lib.maxDuration
    /\ m.start < m.end

\* The ranking service failed, or its response held no list of rankings.
RankingFailed == lib.response.kind \in {"throws", "unparsable", "noClips", "notArray"}

\* The entries of the response that name position k, in order.
Addressed(k) == SelectSeq(lib.response.clips, LAMBDA r : r.clipNumber = k)

C16_ScorerComplete ==
    Scanned =>
        \A i \in DOMAIN lib.segments : \A j \in i..Len(lib.segments) :
            (/\ Span(lib.segments, i, j) >= lib.minDuration
             /\ Span(lib.segments, i, j) <= lib.maxDuration
             /\ CalculateViralScore(SubSeq(lib.segments, i, j)) > 50)
            => \E k \in DOMAIN lib.candidates :
                 /\ lib.candidates[k].id = <<i, j>>
                 /\ lib.candidates[k].start = lib.segments[i].start
                 /\ lib.candidates[k].end = lib.segments[j].end

\* C17: every moment the detector returns has a score in [0, 1], whatever the
\* ranking service returned.
C17_ScoresClamped ==
    \A k \in DOMAIN lib.out : lib.out[k].score >= 0 /\ lib.out[k].score <= 100

\* C18, as stated: on success every ranking entry naming position k sets the
\* score of the k-th submitted candidate to reported/10 and its reason to the
\* returned justification; a candidate no entry names keeps score and reason.
C18_EveryEntryApplies ==
    (lib.pc = "done" /\ lib.response.kind = "clips") =>
        \A k \in DOMAIN lib.top :
            /\ \A n \in DOMAIN Addressed(k) :
                 /\ lib.refined[k].score = Tenth(Addressed(k)[n].viralScore)
                 /\ lib.refined[k].reason = Addressed(k)[n].reason
            /\ Addressed(k) = <<>> =>
                 /\ lib.refined[k].score = lib.top[k].score
                 /\ lib.refined[k].reason = lib.top[k].reason

\* C18, amended: on success the first ranking entry naming position k sets
\* the score of the k-th submitted candidate to reported/10, and its reason to
\* the returned justification unless that is empty, in which case the reason
\* is kept; a candidate no entry names keeps score and reason.
C18_FirstEntryApplies ==
    (lib.pc = "done" /\ lib.response.kind = "clips") =>
        \A k \in DOMAIN lib.top :
            IF Addressed(k) = <<>>
            THEN /\ lib.refined[k].score = lib.top[k].score
                 /\ lib.refined[k].reason = lib.top[k].reason
            ELSE /\ lib.refined[k].score = Tenth(Addressed(k)[1].viralScore)
                 /\ lib.refined[k].reason =
                        IF Addressed(k)[1].reason = <<>>
                        THEN lib.top[k].reason
                        ELSE Addressed(k)[1].reason

\* Two entries name the first of two candidates: the first one set its score
\* and, having no justification, left its reason; the second candidate, which
\* no entry names, kept its score.
C18_Witness ==
    /\ lib.pc = "done"
    /\ lib.response.kind = "clips"
    /\ Len(lib.top) = 2
    /\ Len(Addressed(1)) = 2
    /\ Addressed(1)[1].viralScore # Addressed(1)[2].viralScore
    /\ Addressed(1)[1].reason = <<>>
    /\ Addressed(1)[2].reason # <<>>
    /\ lib.refined[1].score = Tenth(Addressed(1)[1].viralScore)
    /\ lib.refined[1].score # NaN
    /\ lib.refined[1].score # lib.top[1].score
    /\ lib.refined[2].score = lib.top[2].score

\* C19: refinement changes only score and reason: the refined list has the
\* length and order of the submitted one, and each refined moment the id,
\* start, end, text, emotions and keywords of the candidate at its position.
C19_RefinementFrame ==
    lib.pc = "done" =>
        /\ Len(lib.refined) = Len(lib.top)
        /\ \A k \in DOMAIN lib.top :
            /\ lib.refined[k].id = lib.top[k].id
            /\ lib.refined[k].start = lib.top[k].start
            /\ lib.refined[k].end = lib.top[k].end
            /\ lib.refined[k].text = lib.top[k].text
            /\ lib.refined[k].emotions = lib.top[k].emotions
            /\ lib.refined[k].keywords = lib.top[k].keywords

\* Of three candidates the second was given a new score and a new reason.
C19_Witness ==
    /\ lib.pc = "done"
    /\ lib.response.kind = "clips"
    /\ Len(lib.top) = 3
    /\ Addressed(1) = <<>>
    /\ lib.refined[2].score # lib.top[2].score
    /\ lib.refined[2].reason # lib.top[2].reason

\* C20: when the ranking service fails (it throws, or its response does not
\* parse or holds no list of rankings) the detector still returns, and what
\* it returns is the heuristic candidates sorted by descending score, cut to
\* the first ten, scores and reasons included.
C20_FailureTransparent ==
    (lib.pc = "done" /\ RankingFailed) =>
        lib.out = Slice(SortByScore(lib.candidates), TopMoments)

\* The ranking service threw on more candidates than are submitted, of
\* different scores: ten moments are returned.
C20_Witness ==
    /\ lib.pc = "done"
    /\ lib.response.kind = "throws"
    /\ Len(lib.candidates) > TopCandidates
    /\ \E k \in DOMAIN lib.candidates : lib.candidates[k].score # lib.candidates[1].score
    /\ Len(lib.out) = TopMoments

----------------------------------------------------------------------------
\* C21: the detector returns at most 10 moments, submits at most 20
\* candidates to refinement, and returns the moments by descending score,
\* whatever the input and the ranking response.
C21_OutputBounded ==
    /\ Len(lib.top) <= 20
    /\ Len(lib.out) <= 10
    /\ \A k \in DOMAIN lib.out : \A l \in DOMAIN lib.out :
         k < l => /\ lib.out[k].score # NaN
                  /\ lib.out[l].score # NaN
                  /\ lib.out[k].score >= lib.out[l].score

\* The window of id was discovered before the window of other.
DiscoveredBefore(id, other) ==
    id[1] < other[1] \/ (id[1] = other[1] /\ id[2] < other[2])

\* The heuristic score of the candidate with the given id.
HeuristicScore(id) ==
    (CHOOSE m \in Range(lib.candidates) : m.id = id).score

\* C22, as stated: of two returned moments of equal score, refined or not,
\* the one whose window was discovered earlier comes first.
C22_TiesByDiscovery ==
    \A k \in DOMAIN lib.out : \A l \in DOMAIN lib.out :
        (k < l /\ lib.out[k].score = lib.out[l].score /\ lib.out[k].score # NaN) =>
            DiscoveredBefore(lib.out[k].id, lib.out[l].id)

\* C22, amended: of two returned moments of equal score the one with the
\* higher heuristic score comes first, and of two that agree in that too the
\* one whose window was discovered earlier.
C22_TiesByHeuristicRank ==
    \A k \in DOMAIN lib.out : \A l \in DOMAIN lib.out :
        (k < l /\ lib.out[k].score = lib.out[l].score /\ lib.out[k].score # NaN) =>
            \/ HeuristicScore(lib.out[k].id) > HeuristicScore(lib.out[l].id)
            \/ /\ HeuristicScore(lib.out[k].id) = HeuristicScore(lib.out[l].id)
               /\ DiscoveredBefore(lib.out[k].id, lib.out[l].id)

\* Two candidates were both given the same refined score: the one discovered
\* later, of the higher heuristic score, is returned first; and two moments
\* of equal heuristic score are returned in the order of their discovery.
C22_Witness ==
    /\ lib.pc = "done"
    /\ Len(lib.out) >= 3
    /\ lib.out[1].score = lib.out[2].score
    /\ lib.out[1].score # HeuristicScore(lib.out[1].id)
    /\ DiscoveredBefore(lib.out[2].id, lib.out[1].id)
    /\ \E k \in DOMAIN lib.out : \E l \in DOMAIN lib.out :
         /\ k < l
         /\ lib.out[k].score = lib.out[l].score
         /\ HeuristicScore(lib.out[k].id) = HeuristicScore(lib.out[l].id)

----------------------------------------------------------------------------
\* The entries pushed so far by the run of clip job c, and the moment each
\* of them was pushed for.
Pushed(c) == clipTask[c].clips

\* Entry e, pushed for moment, is a ready entry whose two paths name files
\* that exist and show that moment.
ReadyWithFiles(e, moment) ==
    /\ {"videoPath", "thumbnailPath"} \subseteq DOMAIN e
    /\ e.videoPath \in DOMAIN files
    /\ e.thumbnailPath \in DOMAIN files
    /\ files[e.videoPath].of = moment.id
    /\ files[e.thumbnailPath].of = moment.id

\* Entry e, pushed for moment, is a non-ready entry: an error message, the
\* moment it failed on and no path.
FailedWithoutPaths(e, moment) ==
    /\ {"error", "moment"} \subseteq DOMAIN e
    /\ e.moment = moment
    /\ "videoPath" \notin DOMAIN e
    /\ "thumbnailPath" \notin DOMAIN e

\* C26: in every completed clip job each ready entry of the result has a
\* video path and a thumbnail path that name existing files, and each
\* non-ready entry has an error message, its moment and no paths; the files
\* of a ready entry exist from the step that pushed the entry onwards, also
\* while the later moments of the job are rendered.
C26_ReadyClipsHaveFiles ==
    \A c \in DOMAIN clipJobs :
        /\ \A k \in DOMAIN Pushed(c) :
              IF Pushed(c)[k].ready
              THEN ReadyWithFiles(Pushed(c)[k], clipTask[c].moments[k])
              ELSE FailedWithoutPaths(Pushed(c)[k], clipTask[c].moments[k])
        /\ clipJobs[c].status = "completed" => clipJobs[c].result = Pushed(c)

\* A completed clip job whose result holds a ready entry followed by a
\* non-ready one and another ready one.
C26_Witness ==
    \E c \in DOMAIN clipJobs :
        /\ clipJobs[c].status = "completed"
        /\ Len(clipJobs[c].result) = 3
        /\ clipJobs[c].result[1].ready
        /\ ~clipJobs[c].result[2].ready
        /\ clipJobs[c].result[3].ready

----------------------------------------------------------------------------
\* The requests C23 lists: an ingest request with a missing URL, an
\* unrecognised URL, a missing file or an unsupported content type.
InvalidIngest(request) ==
    \/ /\ request.contentType = "application/json"
       /\ request.url = <<"", <<>>>> \/ ExtractYouTubeId(request.url) = <<>>
    \/ request.contentType = "multipart/form-data" /\ request.file = "null"
    \/ request.contentType \notin {"application/json", "multipart/form-data"}

\* A process request with a missing jobId, a missing or non-array momentIds,
\* or a selection that matches no moment of the completed job it names.
InvalidProcess(request) ==
    \/ request.jobId = 0
    \/ request.momentIds.kind # "array"
    \/ /\ request.jobId \in DOMAIN jobs
       /\ jobs[request.jobId].status = "completed"
       /\ \A k \in DOMAIN jobs[request.jobId].result.moments :
            jobs[request.jobId].result.moments[k].id \notin Range(request.momentIds.ids)

\* Every request the claim lists fails the validation of its handler.
C23_Refused ==
    /\ \A request \in IngestRequests :
         InvalidIngest(request) => IngestError(request) # ""
    /\ \A request \in ProcessRequests :
         InvalidProcess(request) => ProcessError(request) # ""

\* A step that answers a POST with an error writes to neither registry.
C23_Step ==
    (reply'.route \in {"ingest", "process"} /\ reply'.status = 400) =>
        UNCHANGED <<jobs, clipJobs>>

\* C23: a request with invalid input (ingest: missing URL, unrecognised URL,
\* missing file, unsupported content type; process: missing jobId, missing
\* or non-array momentIds, selection matching no moment) fails validation in
\* every state, and every step in which a POST handler answers with an error
\* leaves both registries unchanged.
C23_InvalidRequestsCreateNoJob == []C23_Refused /\ [][C23_Step]_vars

\* A selection matching no moment of a completed job was just rejected.
C23_Witness ==
    /\ reply = ErrorResponse("process", 400, "No valid moments selected")
    /\ \E j \in DOMAIN jobs :
         jobs[j].status = "completed" /\ Len(jobs[j].result.moments) > 0
    /\ clipJobs = <<>>

----------------------------------------------------------------------------
\* The position of moment m in the list moments.
IndexOf(moments, m) == CHOOSE k \in DOMAIN moments : moments[k] = m

\* sub holds moments of the list moments only, each at most once, in the
\* order of that list.
InResultOrder(sub, moments) ==
    /\ Range(sub) \subseteq Range(moments)
    /\ \A a \in DOMAIN sub : \A b \in DOMAIN sub :
         a < b => IndexOf(moments, sub[a]) < IndexOf(moments, sub[b])

\* C24: a process request naming an absent, processing or failed ingestion
\* job fails validation; every clip job was created from a completed
\* ingestion job, and the moments it processes are moments of that job's
\* result, each at most once and in the order of the result; and whatever
\* the order and the duplicates of the requested ids, the moments selected
\* from a completed job are those with a requested id, in result order.
C24_ClipJobOfCompletedJob ==
    /\ \A request \in ProcessRequests :
         (request.jobId \notin DOMAIN jobs \/ jobs[request.jobId].status # "completed") =>
            ProcessError(request) # ""
    /\ \A c \in DOMAIN clipTask : \E j \in DOMAIN jobs :
         /\ jobs[j].status = "completed"
         /\ clipTask[c].videoPath = jobs[j].result.videoPath
         /\ InResultOrder(clipTask[c].moments, jobs[j].result.moments)
    /\ \A j \in DOMAIN jobs : \A request \in ProcessRequests :
         (jobs[j].status = "completed" /\ request.momentIds.kind = "array") =>
            LET selected == SelectedMoments(jobs[j].result.moments, request.momentIds.ids)
            IN /\ InResultOrder(selected, jobs[j].result.moments)
               /\ {m.id : m \in Range(selected)} =
                      {m.id : m \in Range(jobs[j].result.moments)}
                          \cap Range(request.momentIds.ids)

\* A render request was just accepted against a job of three moments; the
\* clip job processes the first and the third.
C24_Witness ==
    \E c \in DOMAIN clipTask : \E j \in DOMAIN jobs :
        /\ reply = ProcessAccepted(c)
        /\ jobs[j].status = "completed"
        /\ Len(jobs[j].result.moments) = 3
        /\ clipTask[c].moments = <<jobs[j].result.moments[1], jobs[j].result.moments[3]>>

----------------------------------------------------------------------------
\* The response just sent is an accepted submission: the status poll of the
\* returned identifier finds the entry, in status processing.
C25_EntryThere ==
    /\ (reply.route = "ingest" /\ reply.status = 200) =>
          LET poll == Lookup("status", jobs, reply.jobId, "Job not found")
          IN poll.status = 200 /\ poll.body.status = "processing"
    /\ (reply.route = "process" /\ reply.status = 200) =>
          LET poll == Lookup("clips", clipJobs, reply.clipJobId, "Clip job not found")
          IN poll.status = 200 /\ poll.body.status = "processing"

\* Entry id of store is terminal after the step and was not before it.
TurnsTerminal(store, storeAfter, id) ==
    /\ storeAfter[id].status # "processing"
    /\ id \in DOMAIN store => store[id].status = "processing"

\* A step that makes an entry terminal is a step of a background task, not
\* of a request handler.
C25_TerminalLater ==
    (\/ \E j \in DOMAIN jobs' : TurnsTerminal(jobs, jobs', j)
     \/ \E c \in DOMAIN clipJobs' : TurnsTerminal(clipJobs, clipJobs', c)) =>
        reply' = NoReply

\* C25: in the state in which an accepted ingest or process request returns
\* its identifier, the entry exists (a status poll finds it) and is in status
\* processing; the terminal write is made by a later step of the background
\* task.
C25_SubmissionDoesNotBlock == []C25_EntryThere /\ [][C25_TerminalLater]_vars

\* A render request has just been accepted; its entry shows no progress yet.
C25_Witness ==
    /\ reply.route = "process"
    /\ reply.status = 200
    /\ clipJobs[reply.clipJobId].status = "processing"
    /\ clipJobs[reply.clipJobId].processedClips = 0
    /\ \E j \in DOMAIN jobs : jobs[j].status = "completed"

----------------------------------------------------------------------------
\* The event at position k of tr is the start of a stage with a registry
\* write before it and no other stage started in between.
SnapshotBefore(tr, k) ==
    \E l \in 1..(k - 1) :
        /\ tr[l].ev = "set"
        /\ \A m \in (l + 1)..(k - 1) : tr[m].ev # "call"

\* C27: in an ingestion job every stage (fast transcript, download, audio
\* extraction, transcription, detection, duration measurement) starts right
\* after a snapshot write of its own: no two stages start without a
\* snapshot write between them.
C27_SnapshotBeforeEachStage ==
    \A j \in DOMAIN trace : \A k \in DOMAIN trace[j] :
        trace[j][k].ev = "call" => SnapshotBefore(trace[j], k)

----------------------------------------------------------------------------
\* The keys of a registry whose entry a step created or changed, and the
\* tasks that took a step (their trace grew or began).
Written(store, storeAfter) ==
    {k \in DOMAIN storeAfter : k \notin DOMAIN store \/ storeAfter[k] # store[k]}
Stepped(tr, trAfter) ==
    {k \in DOMAIN trAfter : k \notin DOMAIN tr \/ trAfter[k] # tr[k]}

\* A step is taken by one task at most; it writes only the entry under that
\* task's own id, in that task's own registry, and removes no entry.
C29_Step ==
    /\ Cardinality(Stepped(trace, trace') \cup Stepped(clipTrace, clipTrace')) <= 1
    /\ Written(jobs, jobs') \subseteq Stepped(trace, trace')
    /\ Written(clipJobs, clipJobs') \subseteq Stepped(clipTrace, clipTrace')
    /\ DOMAIN jobs \subseteq DOMAIN jobs'
    /\ DOMAIN clipJobs \subseteq DOMAIN clipJobs'

\* The ingestion status route finds every ingestion job under its id and no
\* clip job; the clip status route finds every clip job and no ingestion job.
C29_Lookups ==
    /\ \A j \in DOMAIN jobs :
         /\ Lookup("status", jobs, j, "Job not found").body = jobs[j]
         /\ jobs[j].id = j
         /\ Lookup("clips", clipJobs, j, "Clip job not found").status = 404
    /\ \A c \in DOMAIN clipJobs :
         /\ Lookup("clips", clipJobs, c, "Clip job not found").body = clipJobs[c]
         /\ clipJobs[c].id = c
         /\ Lookup("status", jobs, c, "Job not found").status = 404

\* C29: with several ingestion and clip jobs running interleaved, every
\* step writes at most the registry entry of the one task that took it, in
\* that task's registry, leaving every other entry and the other registry
\* as they were; no entry is ever removed; and a status lookup on one route
\* never returns a job of the other kind.
C29_JobsIsolated == []C29_Lookups /\ [][C29_Step]_vars

\* Two ingestion jobs and a clip job side by side: one ingestion completed,
\* the other past its first stage, the clip job rendering.
C29_Witness ==
    \E j \in DOMAIN jobs : \E k \in DOMAIN jobs : \E c \in DOMAIN clipJobs :
        /\ jobs[j].status = "completed"
        /\ jobs[k].status = "processing"
        /\ jobs[k].progress > 20
        /\ clipJobs[c].status = "processing"
        /\ clipTask[c].pc = "generateThumbnail"

----------------------------------------------------------------------------
\* Entry e is well-formed for its status.
WellFormed(e) ==
    /\ e.status \in {"processing", "completed", "failed"}
    /\ e.status = "processing" =>
          /\ "result" \notin DOMAIN e
          /\ "error" \notin DOMAIN e
          /\ "progress" \in DOMAIN e
          /\ e.progress < 100
    /\ e.status = "completed" =>
          /\ "result" \in DOMAIN e
          /\ "error" \notin DOMAIN e
          /\ "progress" \in DOMAIN e
          /\ e.progress = 100
    /\ e.status = "failed" =>
          /\ "error" \in DOMAIN e
          /\ e.error # ""
          /\ "result" \notin DOMAIN e

\* C28: every entry of either registry is well-formed for its status in
\* every state: processing means no result, no error and progress below
\* 100; completed means a result, progress 100 and no error; failed means an
\* error message and no result.
C28_EntriesWellFormed ==
    /\ \A j \in DOMAIN jobs : WellFormed(jobs[j])
    /\ \A c \in DOMAIN clipJobs : WellFormed(clipJobs[c])

\* A completed ingestion job beside a clip job that has rendered two of its
\* three clips.
C28_Witness ==
    \E j \in DOMAIN jobs : \E c \in DOMAIN clipJobs :
        /\ jobs[j].status = "completed"
        /\ clipJobs[c].status = "processing"
        /\ clipJobs[c].progress = 66

----------------------------------------------------------------------------
\* C30: when every awaited collaborator call settles and every task whose
\* call has settled is run, every ingestion job that was created is
\* eventually completed or failed, and every clip job that was created is
\* eventually completed.
C30_JobsTerminate ==
    /\ \A j \in {1} :
         (j \in DOMAIN jobs) ~>
            (j \in DOMAIN jobs /\ jobs[j].status \in {"completed", "failed"})
    /\ \A c \in {2} :
         (c \in DOMAIN clipJobs) ~>
            (c \in DOMAIN clipJobs /\ clipJobs[c].status = "completed")

\* Both jobs have ended, the clip job after a clip that failed and one that
\* went through captions and zoom.
C30_Witness ==
    /\ 1 \in DOMAIN jobs
    /\ jobs[1].status = "completed"
    /\ 2 \in DOMAIN clipJobs
    /\ clipJobs[2].status = "completed"
    /\ Len(clipJobs[2].result) = 2
    /\ ~clipJobs[2].result[1].ready
    /\ clipJobs[2].result[2].ready
    /\ Occurs(clipTrace[2], "ret", "addZoomPanEffect")

----------------------------------------------------------------------------
\* C31: a clip that fails leaves nothing behind.  Once a moment has yielded
\* a non-ready entry and the loop has moved on, no base, captioned, zoom or
\* final video and no subtitle file of that clip exists, whatever the stage
\* that failed and whatever the toggles.
C31_FailedClipLeavesNothing ==
    \A c \in DOMAIN clipTask :
        \A k \in 1..Len(clipTask[c].clips) :
            ~clipTask[c].clips[k].ready =>
                \A suffix \in {"_base.mp4", "_captioned.mp4", "_final.mp4", ".mp4", "_base.srt"} :
                    ClipPath(c, k, suffix) \notin DOMAIN files

----------------------------------------------------------------------------
\* C32: whenever an ingestion job is completed or failed, on the YouTube path
\* or the upload path, the temporary audio file of that job does not exist.
C32_NoAudioAfterTerminal ==
    \A j \in DOMAIN jobs :
        Terminal(jobs[j]) => AudioPath(j) \notin DOMAIN files
====
